---- MODULE Spec2Model ----
(***************************************************************************)
(* Model of the moving-average signal engine of vnstock_analyzer:          *)
(*   - MAAnalyzer (technical_modules/ma_analyzer.py): detectors, analyze   *)
(*     and _format_ui_alerts;                                              *)
(*   - the pure detector functions of ma_detector.py and ma_momentum.py;   *)
(*   - TechnicalAnalyzer.__init__/_calculate_indicators (technical.py).    *)
(*                                                                         *)
(* Numbers.  The code computes in floating point.  The model computes in   *)
(* exact rationals <<n, d>> with d > 0; a division by zero yields a value  *)
(* with d = 0 (numpy's inf/nan), so that a missing guard is observable.    *)
(* Messages are modelled by their tag (which f-string was chosen), not by  *)
(* their text.                                                             *)
(***************************************************************************)
EXTENDS Integers, Sequences, FiniteSets, TLC

VARIABLES
    heap,       \* the DataFrame objects: "caller" is the caller's series, "copy" TechnicalAnalyzer's
    ta_df,      \* TechnicalAnalyzer.self.df: a reference into heap, or "unset" before construction
    ret,        \* what the last call returned: [op |-> name, val |-> value]
    runs,       \* the results of the recorded runs of analyze (AnalyzeRun), oldest first
    scorer      \* the StockScorer object: symbol, fetcher, _initialized

vars == <<heap, ta_df, ret, runs, scorer>>

-----------------------------------------------------------------------------
(* Exact rational arithmetic standing for the code's float arithmetic.      *)

R(i) == <<i, 1>>

Norm(n, d) == IF d < 0 THEN <<-n, -d>> ELSE <<n, d>>

Finite(a) == a[2] # 0

Add(a, b) == IF a[2] = b[2] THEN <<a[1] + b[1], a[2]>>
             ELSE <<a[1] * b[2] + b[1] * a[2], a[2] * b[2]>>

Neg(a) == <<-a[1], a[2]>>

Sub(a, b) == Add(a, Neg(b))

Mul(a, b) == <<a[1] * b[1], a[2] * b[2]>>

\* a / b as numpy computes it: a zero divisor gives a non-finite value (d = 0)
Div(a, b) == Norm(a[1] * b[2], a[2] * b[1])

Abs(a) == IF a[1] < 0 THEN Neg(a) ELSE a

Lt(a, b) == a[1] * b[2] < b[1] * a[2]

Le(a, b) == a[1] * b[2] <= b[1] * a[2]

Gt(a, b) == Lt(b, a)

Ge(a, b) == Le(b, a)

Eq(a, b) == a[1] * b[2] = b[1] * a[2]

\* Python's max(a, b) and min(a, b): the first argument wins a tie
PyMax(a, b) == IF Gt(b, a) THEN b ELSE a

PyMin(a, b) == IF Lt(b, a) THEN b ELSE a

Zero == R(0)

\* decimal literals of the source, as exact fractions
Dec(units, tenths) == <<units * 10 + tenths, 10>>

Milli(k) == <<k, 1000>>

-----------------------------------------------------------------------------
(* DataFrames: None, or a sequence of rows; df.iloc[-k] is the k-th row     *)
(* from the end.  A row has the columns close, volume, MA10, MA20, MA50.    *)

NoneDf == [is_none |-> TRUE, rows |-> <<>>]

DataFrame(rows) == [is_none |-> FALSE, rows |-> rows]

DfLen(d) == Len(d.rows)

Iloc(d, k) == d.rows[Len(d.rows) - k + 1]

\* the guard shared by every detector: `df is None or len(df) < 50`
MinBars == 50

\* variant: the length test is off by one bar
NotEnoughDataOffByOne(d) == d.is_none \/ DfLen(d) < MinBars - 1

NotEnoughData(d) == d.is_none \/ DfLen(d) < MinBars

PerfectOrder(row) == row.MA10 > row.MA20 /\ row.MA20 > row.MA50

-----------------------------------------------------------------------------
(* MAAnalyzer: the detectors (ma_analyzer.py).                              *)

\* `if ma50 == 0` (line 61): the slow MA is the denominator of both distances
MA50IsZero(ma50) == ma50 = 0

MAAnalyzer_detect_convergence(d) ==
    IF NotEnoughData(d)
    THEN [is_converging |-> FALSE, convergence_strength |-> Zero,
          avg_distance |-> Zero, message |-> "NO_DATA"]
    ELSE LET latest == Iloc(d, 1)
             ma10 == latest.MA10
             ma20 == latest.MA20
             ma50 == latest.MA50
         IN IF MA50IsZero(ma50)
            THEN [is_converging |-> FALSE, convergence_strength |-> Zero,
                  avg_distance |-> Zero, message |-> "MA50_ZERO"]
            ELSE LET dist_10_50 == Abs(Mul(Div(R(ma10 - ma50), R(ma50)), R(100)))
                     dist_20_50 == Abs(Mul(Div(R(ma20 - ma50), R(ma50)), R(100)))
                     avg_distance == Div(Add(dist_10_50, dist_20_50), R(2))
                     convergence_strength ==
                         PyMax(Zero, PyMin(R(100),
                               Mul(Div(Sub(R(8), avg_distance), R(8)), R(100))))
                 IN [is_converging |-> Lt(avg_distance, R(4)),
                     convergence_strength |-> convergence_strength,
                     avg_distance |-> avg_distance,
                     message |-> IF Lt(avg_distance, Dec(1, 5)) THEN "SUPER_TWISTED"
                                 ELSE IF Lt(avg_distance, R(4)) THEN "ACCUMULATING"
                                 ELSE IF Lt(avg_distance, R(8)) THEN "NEAR"
                                 ELSE "FAR"]

\* slope of MA50 against its value at df.iloc[-10], guarded by `> 0` (lines 154-158, 651-653)
MA50Slope10(d, ma50) ==
    IF DfLen(d) >= 10
    THEN LET ma50_10_days_ago == Iloc(d, 10).MA50
         IN IF ma50_10_days_ago > 0
            THEN Mul(Div(R(ma50 - ma50_10_days_ago), R(ma50_10_days_ago)), R(100))
            ELSE Zero
    ELSE Zero

ExpansionSentinel(msg) ==
    [is_expanding |-> FALSE, expansion_quality |-> "WEAK", ma50_slope |-> Zero,
     distances |-> <<>>, message |-> msg]

MAAnalyzer_detect_expansion(d) ==
    IF NotEnoughData(d) THEN ExpansionSentinel("NO_DATA")
    ELSE LET latest == Iloc(d, 1)
             ma50 == latest.MA50
         IN IF ~PerfectOrder(latest) THEN ExpansionSentinel("NO_PERFECT_ORDER")
            ELSE IF MA50IsZero(ma50) THEN ExpansionSentinel("MA50_ZERO")
            ELSE LET dist_10_50 == Mul(Div(R(latest.MA10 - ma50), R(ma50)), R(100))
                     dist_20_50 == Mul(Div(R(latest.MA20 - ma50), R(ma50)), R(100))
                     ma50_slope == MA50Slope10(d, ma50)
                     quality ==
                         IF Gt(dist_10_50, R(6)) /\ Gt(dist_20_50, R(3)) /\ Gt(ma50_slope, R(2))
                         THEN "PERFECT"
                         ELSE IF Gt(dist_10_50, R(4)) /\ Gt(dist_20_50, R(2)) /\ Gt(ma50_slope, R(1))
                         THEN "GOOD"
                         ELSE "WEAK"
                     message ==
                         IF quality = "PERFECT" THEN "PERFECT_EXPANSION"
                         ELSE IF quality = "GOOD" THEN "EXPANDING"
                         ELSE IF Gt(dist_10_50, R(2)) THEN "WEAK_EXPANSION"
                         ELSE "NOT_EXPANDED"
                 IN [is_expanding |-> quality \in {"PERFECT", "GOOD"},
                     expansion_quality |-> quality,
                     ma50_slope |-> ma50_slope,
                     distances |-> <<dist_10_50, dist_20_50>>,
                     message |-> message]

\* variant: the prior bar must be strictly below (<) for a cross to count
GoldenCrossesStrictPrior(d) ==
    IF DfLen(d) >= 2
    THEN LET latest == Iloc(d, 1)
             prev == Iloc(d, 2)
         IN (IF prev.MA10 < prev.MA20 /\ latest.MA10 > latest.MA20
             THEN <<[type |-> "MA10_MA20", score |-> 6]>> ELSE <<>>)
            \o
            (IF prev.MA20 < prev.MA50 /\ latest.MA20 > latest.MA50
             THEN <<[type |-> "MA20_MA50", score |-> 10]>> ELSE <<>>)
    ELSE <<>>

\* the golden crosses of the latest bar, in the order the code appends them
GoldenCrosses(d) ==
    IF DfLen(d) >= 2
    THEN LET latest == Iloc(d, 1)
             prev == Iloc(d, 2)
         IN (IF prev.MA10 <= prev.MA20 /\ latest.MA10 > latest.MA20
             THEN <<[type |-> "MA10_MA20", score |-> 6]>> ELSE <<>>)
            \o
            (IF prev.MA20 <= prev.MA50 /\ latest.MA20 > latest.MA50
             THEN <<[type |-> "MA20_MA50", score |-> 10]>> ELSE <<>>)
    ELSE <<>>

\* best_cross = None
NoCross == [type |-> "None", score |-> 0]

\* Python's max(crosses, key=...): the first element of greatest key
RECURSIVE MaxBy(_, _)
MaxBy(s, key) ==
    IF Len(s) = 1 THEN s[1]
    ELSE LET rest == MaxBy(Tail(s), key)
         IN IF rest[key] > s[1][key] THEN rest ELSE s[1]

MAAnalyzer_detect_golden_cross(d) ==
    IF NotEnoughData(d)
    THEN [crosses |-> <<>>, best_cross |-> NoCross, message |-> "NO_DATA"]
    ELSE LET crosses == GoldenCrosses(d)
             best_cross == IF crosses # <<>> THEN MaxBy(crosses, "score") ELSE NoCross
         IN [crosses |-> crosses, best_cross |-> best_cross,
             message |-> IF crosses = <<>> THEN "NO_GOLDEN_CROSS" ELSE best_cross.type]

\* the not-tight results carry no avg_distance key; readers use .get('avg_distance', 0)
NotTight(strength) ==
    [is_tight |-> FALSE, strength |-> strength, avg_distance |-> Zero,
     message |-> "", suggested_action |-> "WAIT"]

\* a convergence never counted as ultra tight
UltraTightNever(strength) == FALSE

\* `ultra_tight = (strength >= 95)` (line 293)
UltraTight(strength) == Ge(strength, R(95))

MAAnalyzer_detect_tight_convergence(d, convergence, sell_warning) ==
    IF NotEnoughData(d) THEN NotTight(Zero)
    ELSE LET latest == Iloc(d, 1)
             price == latest.close
             ma10 == latest.MA10
             ma20 == latest.MA20
             ma50 == latest.MA50
             strength == convergence.convergence_strength
             perfect_order == PerfectOrder(latest)
             near_perfect_order == ma10 > ma20 /\ Ge(R(ma20), Mul(R(ma50), Milli(998)))
             ultra_tight == UltraTight(strength)
             has_critical_warning ==
                 sell_warning.has_warning /\ sell_warning.warning_level = "CRITICAL"
         IN IF Lt(strength, R(75)) THEN NotTight(strength)
            ELSE IF price <= ma50 THEN NotTight(strength)
            ELSE IF ~(perfect_order \/ near_perfect_order \/ ultra_tight) THEN NotTight(strength)
            ELSE IF has_critical_warning THEN NotTight(strength)
            ELSE [is_tight |-> TRUE, strength |-> strength,
                  avg_distance |-> convergence.avg_distance,
                  message |-> IF Ge(strength, R(90)) THEN "SUPER_SUPER_TWISTED" ELSE "SUPER_TWISTED",
                  suggested_action |-> IF Ge(strength, R(90)) THEN "WATCH_CLOSELY" ELSE "WATCH"]

-----------------------------------------------------------------------------
(* Momentum: ma_momentum.py, and the copy of it inside MAAnalyzer.          *)

\* variant: the past value is never taken to be zero
MAPastIsZeroNever(ma_past) == FALSE

\* `if ma_past == 0: return 0` (line 129)
MAPastIsZero(ma_past) == ma_past = 0

calc_ma_slope(d, latest, ma_name, lookback_days) ==
    IF DfLen(d) < lookback_days THEN Zero
    ELSE LET ma_current == latest[ma_name]
             ma_past == Iloc(d, lookback_days)[ma_name]
         IN IF MAPastIsZero(ma_past) THEN Zero
            ELSE LET total_change_pct ==
                         Mul(Div(R(ma_current - ma_past), R(ma_past)), R(100))
                 IN Div(total_change_pct, R(lookback_days))

interpret_slope(slope) ==
    [slope |-> slope,
     trend |-> IF Gt(slope, Dec(0, 3)) THEN "UPTREND"
               ELSE IF Gt(slope, Dec(0, 1)) THEN "MILD_UPTREND"
               ELSE IF Gt(slope, Dec(0, -1)) THEN "NEUTRAL"
               ELSE IF Gt(slope, Dec(0, -3)) THEN "MILD_DOWNTREND"
               ELSE "DOWNTREND",
     strength |-> IF Gt(Abs(slope), Dec(0, 5)) THEN "VERY_STRONG"
                  ELSE IF Gt(Abs(slope), Dec(0, 3)) THEN "STRONG"
                  ELSE IF Gt(Abs(slope), <<15, 100>>) THEN "MODERATE"
                  ELSE "WEAK"]

\* sum([1 if s > 0.1 else 0, ...]) and sum([1 if s < -0.1 else 0, ...])
UptrendCount(s10, s20, s50) ==
    (IF Gt(s10, Dec(0, 1)) THEN 1 ELSE 0) + (IF Gt(s20, Dec(0, 1)) THEN 1 ELSE 0)
    + (IF Gt(s50, Dec(0, 1)) THEN 1 ELSE 0)

DowntrendCount(s10, s20, s50) ==
    (IF Lt(s10, Dec(0, -1)) THEN 1 ELSE 0) + (IF Lt(s20, Dec(0, -1)) THEN 1 ELSE 0)
    + (IF Lt(s50, Dec(0, -1)) THEN 1 ELSE 0)

\* variant: without a majority the alignment is the sentinel's NEUTRAL
AlignmentNeutralDefault(s10, s20, s50) ==
    LET uptrend_count == UptrendCount(s10, s20, s50)
        downtrend_count == DowntrendCount(s10, s20, s50)
    IN IF uptrend_count = 3 THEN "BULLISH_ALIGNED"
       ELSE IF uptrend_count >= 2 THEN "MOSTLY_BULLISH"
       ELSE IF downtrend_count = 3 THEN "BEARISH_ALIGNED"
       ELSE IF downtrend_count >= 2 THEN "MOSTLY_BEARISH"
       ELSE "NEUTRAL"

Alignment(s10, s20, s50) ==
    LET uptrend_count == UptrendCount(s10, s20, s50)
        downtrend_count == DowntrendCount(s10, s20, s50)
    IN IF uptrend_count = 3 THEN "BULLISH_ALIGNED"
       ELSE IF uptrend_count >= 2 THEN "MOSTLY_BULLISH"
       ELSE IF downtrend_count = 3 THEN "BEARISH_ALIGNED"
       ELSE IF downtrend_count >= 2 THEN "MOSTLY_BEARISH"
       ELSE "MIXED"

MomentumSentinel ==
    [ma10 |-> [slope |-> Zero, trend |-> "NEUTRAL", strength |-> "WEAK"],
     ma20 |-> [slope |-> Zero, trend |-> "NEUTRAL", strength |-> "WEAK"],
     ma50 |-> [slope |-> Zero, trend |-> "NEUTRAL", strength |-> "WEAK"],
     alignment |-> "NEUTRAL", summary |-> "NO_DATA"]

analyze_momentum(d) ==
    IF NotEnoughData(d) THEN MomentumSentinel
    ELSE LET latest == Iloc(d, 1)
             ma10_slope == calc_ma_slope(d, latest, "MA10", 5)
             ma20_slope == calc_ma_slope(d, latest, "MA20", 10)
             ma50_slope == calc_ma_slope(d, latest, "MA50", 20)
             alignment == Alignment(ma10_slope, ma20_slope, ma50_slope)
         IN [ma10 |-> interpret_slope(ma10_slope),
             ma20 |-> interpret_slope(ma20_slope),
             ma50 |-> interpret_slope(ma50_slope),
             alignment |-> alignment, summary |-> alignment]

\* MAAnalyzer._analyze_ma_momentum: the same computation with nested helpers
MAAnalyzer_analyze_ma_momentum(d) ==
    IF NotEnoughData(d) THEN MomentumSentinel
    ELSE LET latest == Iloc(d, 1)
             ma10_slope == calc_ma_slope(d, latest, "MA10", 5)
             ma20_slope == calc_ma_slope(d, latest, "MA20", 10)
             ma50_slope == calc_ma_slope(d, latest, "MA50", 20)
             alignment == Alignment(ma10_slope, ma20_slope, ma50_slope)
         IN [ma10 |-> interpret_slope(ma10_slope),
             ma20 |-> interpret_slope(ma20_slope),
             ma50 |-> interpret_slope(ma50_slope),
             alignment |-> alignment, summary |-> alignment]

\* key_levels, action_plan and description are presentation and are left out
MAAnalyzer_forecast_scenarios(d, momentum) ==
    IF NotEnoughData(d)
    THEN [scenario |-> "UNKNOWN", probability |-> "LOW", timeframe |-> "N/A"]
    ELSE LET latest == Iloc(d, 1)
             price == latest.close
             ma20 == latest.MA20
             ma50 == latest.MA50
             ma10_slope == momentum.ma10.slope
             ma20_slope == momentum.ma20.slope
             ma50_slope == momentum.ma50.slope
             alignment == momentum.alignment
             convergence == MAAnalyzer_detect_convergence(d)
             is_converging == convergence.is_converging
             conv_strength == convergence.convergence_strength
             perfect_order == PerfectOrder(latest)
         IN IF alignment = "BULLISH_ALIGNED" /\ Gt(ma50_slope, Dec(0, 3)) /\ perfect_order
            THEN [scenario |-> "STRONG_UPTREND", probability |-> "HIGH", timeframe |-> "5-10"]
            ELSE IF alignment \in {"BULLISH_ALIGNED", "MOSTLY_BULLISH"}
                    /\ Lt(Dec(0, 1), ma50_slope) /\ Lt(ma50_slope, Dec(0, 3)) /\ perfect_order
            THEN [scenario |-> "UPTREND_CONSOLIDATION", probability |-> "MEDIUM", timeframe |-> "3-7"]
            ELSE IF is_converging /\ Gt(conv_strength, R(70)) /\ price > ma50 /\ Gt(ma50_slope, Zero)
            THEN [scenario |-> "BREAKOUT_SOON",
                  probability |-> IF Gt(conv_strength, R(85)) THEN "HIGH" ELSE "MEDIUM",
                  timeframe |-> IF Gt(conv_strength, R(85)) THEN "1-3" ELSE "3-5"]
            ELSE IF Lt(ma10_slope, Dec(0, -1)) \/ (Lt(ma20_slope, Dec(0, -1)) /\ price < ma20)
            THEN [scenario |-> "DOWNTREND_WARNING", probability |-> "MEDIUM", timeframe |-> "2-5"]
            ELSE IF alignment \in {"BEARISH_ALIGNED", "MOSTLY_BEARISH"} /\ Lt(ma50_slope, Dec(0, -1))
            THEN [scenario |-> "STRONG_DOWNTREND", probability |-> "HIGH", timeframe |-> "5-10"]
            ELSE [scenario |-> "SIDEWAY", probability |-> "MEDIUM", timeframe |-> "3-7"]

-----------------------------------------------------------------------------
(* MAAnalyzer._detect_sell_warning                                          *)

\* the code's `if x: warnings.append(w)`
AppendIf(cond, s, w) == IF cond THEN Append(s, w) ELSE s

MAAnalyzer_detect_sell_warning(d) ==
    IF NotEnoughData(d)
    THEN [has_warning |-> FALSE, warning_level |-> "LOW", warnings |-> <<>>,
          suggested_action |-> "HOLD"]
    ELSE LET latest == Iloc(d, 1)
             price == latest.close
             was_in_perfect_order == PerfectOrder(latest)
             prev == Iloc(d, 2)
             critical == DfLen(d) >= 2
                         /\ prev.MA20 >= prev.MA50 /\ latest.MA20 < latest.MA50
             high == DfLen(d) >= 2 /\ ~critical
                     /\ prev.MA10 >= prev.MA20 /\ latest.MA10 < latest.MA20
             below_ma20 == was_in_perfect_order /\ price < latest.MA20
             below_ma10 == was_in_perfect_order /\ price < latest.MA10
             slope_flat == DfLen(d) >= 10
                           /\ Lt(MA50Slope10(d, latest.MA50), Dec(0, 5))
                           /\ was_in_perfect_order
             level1 == IF critical THEN "CRITICAL" ELSE IF high THEN "HIGH" ELSE "LOW"
             action1 == IF critical THEN "SELL_ALL" ELSE IF high THEN "SELL_HALF" ELSE "HOLD"
             level2 == IF below_ma20 /\ level1 = "LOW" THEN "MEDIUM" ELSE level1
             action2 == IF below_ma20 /\ level1 = "LOW" THEN "SELL_PARTIAL" ELSE action1
             level3 == IF below_ma10 /\ level2 = "LOW" THEN "MEDIUM" ELSE level2
             warnings ==
                 AppendIf(slope_flat,
                   AppendIf(below_ma10,
                     AppendIf(below_ma20,
                       AppendIf(high,
                         AppendIf(critical, <<>>, "DEATH_CROSS_MA20_MA50"),
                         "MA10_CROSSED_BELOW_MA20"),
                       "PRICE_BELOW_MA20"),
                     "PRICE_BELOW_MA10"),
                   "MA50_FLAT")
         IN [has_warning |-> Len(warnings) > 0,
             warning_level |-> level3,
             warnings |-> warnings,
             suggested_action |-> action2]

-----------------------------------------------------------------------------
(* MAAnalyzer._format_ui_alerts: the alert list, built step by step.        *)

Alert(type, priority, color, size, animation) ==
    [type |-> type, priority |-> priority, color |-> color, size |-> size,
     animation |-> animation]

\* list.sort(key=priority): a stable insertion sort
RECURSIVE InsertByPriority(_, _)
InsertByPriority(a, s) ==
    IF s = <<>> THEN <<a>>
    ELSE IF Lt(a.priority, s[1].priority) THEN <<a>> \o s
    ELSE <<s[1]>> \o InsertByPriority(a, Tail(s))

RECURSIVE SortByPriority(_)
SortByPriority(s) ==
    IF s = <<>> THEN <<>>
    ELSE LET n == Len(s)
         IN InsertByPriority(s[n], SortByPriority(SubSeq(s, 1, n - 1)))

AlertTypes(alerts) == {alerts[i].type : i \in 1..Len(alerts)}

\* a warning counted as critical only at level CRITICAL
HasCriticalWarningCriticalOnly(sell_warning) ==
    sell_warning.has_warning /\ sell_warning.warning_level = "CRITICAL"

\* `has_warning and warning_level in ['CRITICAL', 'HIGH']` (line 874)
HasCriticalWarning(sell_warning) ==
    sell_warning.has_warning /\ sell_warning.warning_level \in {"CRITICAL", "HIGH"}

\* lines 877-889: the market state read from self.df
HasRows(d) == ~d.is_none /\ DfLen(d) > 0

MarketPerfectOrder(d) == HasRows(d) /\ PerfectOrder(Iloc(d, 1))

MarketInUptrend(d) == HasRows(d) /\ Iloc(d, 1).close > Iloc(d, 1).MA50

\* 1. sell warning (lines 893-911)
SellWarningAlert(alerts, sell_warning) ==
    IF sell_warning.has_warning
    THEN LET severe == sell_warning.warning_level \in {"CRITICAL", "HIGH"}
         IN Append(alerts, Alert("sell_warning", R(1),
                                 IF severe THEN "error" ELSE "warning",
                                 IF severe THEN "default" ELSE "small",
                                 IF severe THEN "pulse-animation" ELSE ""))
    ELSE alerts

\* the tight-convergence alert ranked with the sell warning
TightConvergenceAlertRankOne(alerts, tight_convergence) ==
    IF tight_convergence.is_tight
    THEN Append(alerts, Alert("tight_convergence", R(1), "deep-orange", "small", ""))
    ELSE alerts

\* 1.5 tight convergence (lines 915-939)
TightConvergenceAlert(alerts, tight_convergence) ==
    IF tight_convergence.is_tight
    THEN LET strong == Ge(tight_convergence.strength, R(90))
         IN Append(alerts, Alert("tight_convergence", Dec(1, 5), "deep-orange",
                                 IF strong THEN "default" ELSE "small",
                                 IF strong THEN "pulse-animation" ELSE ""))
    ELSE alerts

\* 2. expansion (lines 942-964)
ExpansionAlert(alerts, expansion) ==
    IF expansion.is_expanding
    THEN LET perfect == expansion.expansion_quality = "PERFECT"
         IN Append(alerts, Alert("expansion", R(2),
                                 IF perfect THEN "success" ELSE "green",
                                 IF perfect THEN "default" ELSE "small", ""))
    ELSE alerts

\* 3. weak uptrend (lines 968-984)
WeakUptrendAlert(alerts, in_uptrend, perfect_order) ==
    IF Len(alerts) = 0 /\ in_uptrend /\ ~perfect_order
    THEN Append(alerts, Alert("weak_uptrend", R(3), "blue", "small", ""))
    ELSE alerts

\* 4. golden cross (lines 987-1004)
GoldenCrossAlert(alerts, golden_cross, has_critical_warning) ==
    IF golden_cross.best_cross.type # "None" /\ ~has_critical_warning
    THEN Append(alerts, Alert("golden_cross", R(4), "amber", "small", ""))
    ELSE alerts

\* the convergence alert shown in any trend
ConvergenceAlertAnyTrend(alerts, convergence, has_critical_warning, in_uptrend, perfect_order) ==
    IF convergence.is_converging /\ ~has_critical_warning /\ ~perfect_order
    THEN Append(alerts, Alert("convergence", R(5), "purple", "small", ""))
    ELSE alerts

\* variant: the convergence alert is shown in perfect order too
ConvergenceAlertInPerfectOrder(alerts, convergence, has_critical_warning, in_uptrend, perfect_order) ==
    IF convergence.is_converging /\ ~has_critical_warning /\ in_uptrend
    THEN Append(alerts, Alert("convergence", R(5), "purple", "small", ""))
    ELSE alerts

\* 5. convergence (lines 1011-1034)
ConvergenceAlert(alerts, convergence, has_critical_warning, in_uptrend, perfect_order) ==
    IF convergence.is_converging /\ ~has_critical_warning /\ in_uptrend /\ ~perfect_order
    THEN Append(alerts, Alert("convergence", R(5), "purple", "small", ""))
    ELSE alerts

\* variant: the perfect-order alert is appended to every list
PerfectOrderAlertAlways(alerts, perfect_order) ==
    Append(alerts, Alert("perfect_order", R(6), "blue", "small", ""))

\* 6. perfect order (lines 1040-1061)
PerfectOrderAlert(alerts, perfect_order) ==
    LET show_perfect_order ==
            (Len(alerts) = 0 /\ perfect_order)
            \/ (perfect_order /\ Len(alerts) = 1 /\ alerts[1].type = "convergence")
    IN IF show_perfect_order
       THEN Append(SelectSeq(alerts, LAMBDA a : a.type # "convergence"),
                   Alert("perfect_order", R(6), "blue", "small", ""))
       ELSE alerts

\* the list as it stands when the perfect-order test of line 1040 reads it
AlertsBeforePerfectOrder(d, sell_warning, convergence, golden_cross, expansion, tight_convergence) ==
    LET has_critical_warning == HasCriticalWarning(sell_warning)
        perfect_order == MarketPerfectOrder(d)
        in_uptrend == MarketInUptrend(d)
        a1 == SellWarningAlert(<<>>, sell_warning)
        a2 == TightConvergenceAlert(a1, tight_convergence)
        a3 == ExpansionAlert(a2, expansion)
        a4 == WeakUptrendAlert(a3, in_uptrend, perfect_order)
        a5 == GoldenCrossAlert(a4, golden_cross, has_critical_warning)
    IN ConvergenceAlert(a5, convergence, has_critical_warning, in_uptrend, perfect_order)

MAAnalyzer_format_ui_alerts(d, sell_warning, convergence, golden_cross, expansion, tight_convergence) ==
    LET a6 == AlertsBeforePerfectOrder(d, sell_warning, convergence, golden_cross,
                                       expansion, tight_convergence)
        a7 == PerfectOrderAlert(a6, MarketPerfectOrder(d))
    IN SortByPriority(a7)

-----------------------------------------------------------------------------
(* MAAnalyzer.analyze: the additive rule chain.                             *)

\* 1. perfect order and expansion (lines 704-718): the points added
\* variant: perfect order without expansion is worth 1 point
PerfectOrderPointsLowBase(latest, expansion) ==
    IF PerfectOrder(latest)
    THEN IF expansion.expansion_quality = "PERFECT" THEN R(6)
         ELSE IF expansion.expansion_quality = "GOOD" THEN R(5)
         ELSE R(1)
    ELSE IF latest.MA10 > latest.MA20 THEN R(2)
    ELSE Zero

PerfectOrderPoints(latest, expansion) ==
    IF PerfectOrder(latest)
    THEN IF expansion.expansion_quality = "PERFECT" THEN R(6)
         ELSE IF expansion.expansion_quality = "GOOD" THEN R(5)
         ELSE R(3)
    ELSE IF latest.MA10 > latest.MA20 THEN R(2)
    ELSE Zero

PerfectOrderReason(latest, expansion) ==
    IF PerfectOrder(latest)
    THEN IF expansion.expansion_quality \in {"PERFECT", "GOOD"} THEN expansion.message
         ELSE "PERFECT_ORDER_NOT_EXPANDED"
    ELSE IF latest.MA10 > latest.MA20 THEN "SHORT_TERM_POSITIVE"
    ELSE "NO_PERFECT_ORDER"

\* 2. price position (lines 721-736): the three distances, each division guarded
PricePosition(latest) ==
    LET price == latest.close
        ma50 == latest.MA50
        ma20 == latest.MA20
        ma10 == latest.MA10
    IN IF ma50 > 0
       THEN [vs_ma50 |-> Mul(Div(R(price - ma50), R(ma50)), R(100)),
             vs_ma20 |-> IF ma20 > 0 THEN Mul(Div(R(price - ma20), R(ma20)), R(100)) ELSE Zero,
             vs_ma10 |-> IF ma10 > 0 THEN Mul(Div(R(price - ma10), R(ma10)), R(100)) ELSE Zero]
       ELSE [vs_ma50 |-> Zero, vs_ma20 |-> Zero, vs_ma10 |-> Zero]

\* lines 738-748
PricePoints(latest) ==
    IF latest.close > latest.MA50 THEN R(2)
    ELSE IF latest.close > latest.MA20 THEN R(1)
    ELSE IF latest.close > latest.MA10 THEN Dec(0, 5)
    ELSE Zero

PriceReason(latest) ==
    IF latest.close > latest.MA50 THEN "PRICE_ABOVE_MA50"
    ELSE IF latest.close > latest.MA20 THEN "PRICE_ABOVE_MA20"
    ELSE IF latest.close > latest.MA10 THEN "PRICE_ABOVE_MA10"
    ELSE "PRICE_BELOW_MA10"

\* 3. golden cross (lines 753-756): best['score'] * 0.3
GoldenCrossPoints(golden_cross) ==
    IF golden_cross.best_cross.type # "None"
    THEN Mul(R(golden_cross.best_cross.score), Dec(0, 3))
    ELSE Zero

\* 4. convergence (lines 761-765)
ConvergencePoints(convergence) ==
    IF convergence.is_converging /\ Gt(convergence.convergence_strength, R(70))
    THEN R(1) ELSE Zero

\* 5.5 tight convergence (lines 773-789): the bonus, and the override of the warning
\* the bonus and the override at any warning level
TightOverridesAnyLevel(tight_convergence, sell_warning) == tight_convergence.is_tight

\* variant: only a LOW warning is overridden
TightOverridesLowOnly(tight_convergence, sell_warning) ==
    tight_convergence.is_tight /\ sell_warning.warning_level = "LOW"

\* lines 774-776: tight, and the warning level is MEDIUM or LOW
TightOverrides(tight_convergence, sell_warning) ==
    tight_convergence.is_tight /\ sell_warning.warning_level \in {"MEDIUM", "LOW"}

TightPoints(tight_convergence, sell_warning) ==
    IF TightOverrides(tight_convergence, sell_warning) THEN R(2) ELSE Zero

SellWarningAfterTight(tight_convergence, sell_warning) ==
    IF TightOverrides(tight_convergence, sell_warning)
    THEN [has_warning |-> FALSE, warning_level |-> "LOW", warnings |-> <<>>,
          suggested_action |-> "WATCH"]
    ELSE sell_warning

\* variant: a LOW warning costs a point as a MEDIUM one does
AfterSellPenaltyLowToo(score, sell_warning) ==
    IF sell_warning.has_warning
    THEN IF sell_warning.warning_level = "CRITICAL" THEN PyMax(Zero, Sub(score, R(5)))
         ELSE IF sell_warning.warning_level = "HIGH" THEN PyMax(Zero, Sub(score, R(3)))
         ELSE PyMax(Zero, Sub(score, R(1)))
    ELSE score

\* variant: a CRITICAL warning is penalised like a HIGH one
AfterSellPenaltyCriticalAsHigh(score, sell_warning) ==
    IF sell_warning.has_warning
    THEN IF sell_warning.warning_level \in {"CRITICAL", "HIGH"}
         THEN PyMax(Zero, Sub(score, R(3)))
         ELSE IF sell_warning.warning_level = "MEDIUM" THEN PyMax(Zero, Sub(score, R(1)))
         ELSE score
    ELSE score

\* lines 791-798: the penalty, floored at 0
AfterSellPenalty(score, sell_warning) ==
    IF sell_warning.has_warning
    THEN IF sell_warning.warning_level = "CRITICAL" THEN PyMax(Zero, Sub(score, R(5)))
         ELSE IF sell_warning.warning_level = "HIGH" THEN PyMax(Zero, Sub(score, R(3)))
         ELSE IF sell_warning.warning_level = "MEDIUM" THEN PyMax(Zero, Sub(score, R(1)))
         ELSE score
    ELSE score

\* variant: the running total is returned without the cap
FinalScoreUncapped(score) == score

\* line 815
FinalScore(score) == PyMin(score, R(10))

\* variant: the GOOD breakpoint is exclusive
StatusOfExclusiveGood(final_score) ==
    IF Ge(final_score, R(9)) THEN "EXCELLENT"
    ELSE IF Gt(final_score, R(7)) THEN "GOOD"
    ELSE IF Ge(final_score, R(4)) THEN "ACCEPTABLE"
    ELSE IF Ge(final_score, R(2)) THEN "WARNING"
    ELSE "POOR"

\* lines 818-827
StatusOf(final_score) ==
    IF Ge(final_score, R(9)) THEN "EXCELLENT"
    ELSE IF Ge(final_score, R(7)) THEN "GOOD"
    ELSE IF Ge(final_score, R(4)) THEN "ACCEPTABLE"
    ELSE IF Ge(final_score, R(2)) THEN "WARNING"
    ELSE "POOR"

\* the reasons list, in the order the code appends
AnalyzeReasons(latest, expansion, golden_cross, convergence, tight_convergence, sell_warning0, sell_warning, momentum) ==
    LET r1 == <<PerfectOrderReason(latest, expansion), PriceReason(latest)>>
        r2 == AppendIf(golden_cross.best_cross.type # "None", r1, golden_cross.message)
        r3 == AppendIf(convergence.is_converging, r2, convergence.message)
        r4 == IF tight_convergence.is_tight
              THEN IF TightOverrides(tight_convergence, sell_warning0)
                   THEN r3 \o <<tight_convergence.message, tight_convergence.suggested_action>>
                   ELSE Append(r3, tight_convergence.message)
              ELSE r3
        r5 == IF sell_warning.has_warning
              THEN r4 \o sell_warning.warnings \o <<sell_warning.suggested_action>>
              ELSE r4
    IN AppendIf(momentum.alignment \in {"BULLISH_ALIGNED", "MOSTLY_BULLISH"}, r5,
                momentum.summary)

\* The locals of one run of analyze on a series with enough data: the result
\* fields, and the running score after step 1 and before the sell penalty.
AnalyzeLocals(d) ==
    LET latest == Iloc(d, 1)
        expansion == MAAnalyzer_detect_expansion(d)
        score1 == Add(Zero, PerfectOrderPoints(latest, expansion))
        score2 == Add(score1, PricePoints(latest))
        golden_cross == MAAnalyzer_detect_golden_cross(d)
        score3 == Add(score2, GoldenCrossPoints(golden_cross))
        convergence == MAAnalyzer_detect_convergence(d)
        score4 == Add(score3, ConvergencePoints(convergence))
        sell_warning0 == MAAnalyzer_detect_sell_warning(d)
        tight_convergence == MAAnalyzer_detect_tight_convergence(d, convergence, sell_warning0)
        score5 == Add(score4, TightPoints(tight_convergence, sell_warning0))
        sell_warning == SellWarningAfterTight(tight_convergence, sell_warning0)
        score6 == AfterSellPenalty(score5, sell_warning)
        momentum == MAAnalyzer_analyze_ma_momentum(d)
        forecast == MAAnalyzer_forecast_scenarios(d, momentum)
        final_score == FinalScore(score6)
    IN [score |-> final_score,
        status |-> StatusOf(final_score),
        reasons |-> AnalyzeReasons(latest, expansion, golden_cross, convergence,
                                   tight_convergence, sell_warning0, sell_warning, momentum),
        perfect_order |-> PerfectOrder(latest),
        expansion |-> expansion,
        convergence |-> convergence,
        golden_cross |-> golden_cross,
        sell_warning |-> sell_warning,
        tight_convergence |-> tight_convergence,
        price_position |-> PricePosition(latest),
        momentum |-> momentum,
        scenario |-> forecast,
        ui_alerts |-> MAAnalyzer_format_ui_alerts(d, sell_warning, convergence, golden_cross,
                                                  expansion, tight_convergence),
        detected_warning |-> sell_warning0,
        step1_points |-> score1,
        pre_tight |-> score4,
        pre_penalty |-> score5]

\* the early return of lines 686-692
AnalyzeNA ==
    [score |-> Zero, status |-> "NA", reasons |-> <<"NO_DATA">>, has_details |-> FALSE]

MAAnalyzer_analyze(d) ==
    IF NotEnoughData(d) THEN AnalyzeNA
    ELSE [has_details |-> TRUE] @@ AnalyzeLocals(d)

-----------------------------------------------------------------------------
(* ma_detector.py: the pure detector functions.                             *)

Max3(a, b, c) == IF a >= b /\ a >= c THEN a ELSE IF b >= c THEN b ELSE c

Min3(a, b, c) == IF a <= b /\ a <= c THEN a ELSE IF b <= c THEN b ELSE c

\* `if min_ma == 0` (line 54): the smallest MA is the denominator of the bandwidth
MinMAIsZero(min_ma) == min_ma = 0

\* lines 77-90: the direction of MA50 over the last 10 rows
SlopeLabel(d, ma50) ==
    IF DfLen(d) >= 10
    THEN LET ma50_10_days_ago == Iloc(d, 10).MA50
         IN IF ma50_10_days_ago > 0
            THEN LET slope_pct ==
                         Mul(Div(R(ma50 - ma50_10_days_ago), R(ma50_10_days_ago)), R(100))
                 IN IF Gt(slope_pct, Dec(0, 5)) THEN "UP"
                    ELSE IF Lt(slope_pct, Dec(0, -5)) THEN "DOWN"
                    ELSE "NEUTRAL"
            ELSE "NA"
    ELSE "NA"

detect_convergence(d, perfect_order) ==
    IF NotEnoughData(d)
    THEN [is_converging |-> FALSE, convergence_pct |-> Zero, level |-> "NA",
          slope |-> "NA", message |-> "NO_DATA"]
    ELSE LET latest == Iloc(d, 1)
             ma50 == latest.MA50
             max_ma == Max3(latest.MA10, latest.MA20, ma50)
             min_ma == Min3(latest.MA10, latest.MA20, ma50)
         IN IF MinMAIsZero(min_ma)
            THEN [is_converging |-> FALSE, convergence_pct |-> Zero, level |-> "NA",
                  slope |-> "NA", message |-> "MA_ZERO"]
            ELSE LET convergence_pct == Mul(Div(R(max_ma - min_ma), R(min_ma)), R(100))
                     level == IF Lt(convergence_pct, Dec(1, 5)) THEN "SUPER_TIGHT"
                              ELSE IF Lt(convergence_pct, R(3)) THEN "TIGHT"
                              ELSE "LOOSE"
                 IN [is_converging |-> Lt(convergence_pct, R(3)),
                     convergence_pct |-> convergence_pct,
                     level |-> level,
                     slope |-> SlopeLabel(d, ma50),
                     message |-> IF perfect_order
                                 THEN (IF level = "SUPER_TIGHT" THEN "MAY_ACCELERATE_STRONGLY"
                                       ELSE IF level = "TIGHT" THEN "MAY_ACCELERATE"
                                       ELSE "LOOSE_IN_PERFECT_ORDER")
                                 ELSE (IF level = "SUPER_TIGHT" THEN "BREAKOUT_IMMINENT"
                                       ELSE IF level = "TIGHT" THEN "WATCH_BREAKOUT"
                                       ELSE "LOOSE")]

\* Python's round(x, 2), half to even, of an exact value
Round2(x) ==
    IF ~Finite(x) THEN x
    ELSE LET n == x[1] * 100
             q == n \div x[2]
             r == n % x[2]
         IN IF 2 * r < x[2] THEN <<q, 100>>
            ELSE IF 2 * r > x[2] THEN <<q + 1, 100>>
            ELSE IF q % 2 = 0 THEN <<q, 100>> ELSE <<q + 1, 100>>

ModuleExpansionSentinel(msg) ==
    [is_expanding |-> FALSE, quality |-> "NEUTRAL", ma50_slope |-> Zero,
     ma10_ma50_distance |-> Zero, ma20_ma50_distance |-> Zero, message |-> msg]

\* variant: a moderate expansion judged without the MA20 distance
ModerateExpansionAnyMA20(dist_10_50, dist_20_50, ma50_slope) ==
    Gt(dist_10_50, R(3)) /\ Gt(ma50_slope, Dec(0, 5))

\* `elif dist_10_50 > 3 and dist_20_50 > 1.5 and ma50_slope > 0.5` (line 224)
ModerateExpansion(dist_10_50, dist_20_50, ma50_slope) ==
    Gt(dist_10_50, R(3)) /\ Gt(dist_20_50, Dec(1, 5)) /\ Gt(ma50_slope, Dec(0, 5))

detect_expansion(d) ==
    IF NotEnoughData(d) THEN ModuleExpansionSentinel("NO_DATA")
    ELSE LET latest == Iloc(d, 1)
             ma50 == latest.MA50
         IN IF MA50IsZero(ma50) THEN ModuleExpansionSentinel("MA50_ZERO")
            ELSE LET dist_10_50 == Mul(Div(R(latest.MA10 - ma50), R(ma50)), R(100))
                     dist_20_50 == Mul(Div(R(latest.MA20 - ma50), R(ma50)), R(100))
                     ma50_slope == MA50Slope10(d, ma50)
                     quality ==
                         IF Gt(dist_10_50, R(6)) /\ Gt(dist_20_50, R(3)) /\ Gt(ma50_slope, R(2))
                         THEN "STRONG"
                         ELSE IF ModerateExpansion(dist_10_50, dist_20_50, ma50_slope)
                         THEN "MODERATE"
                         ELSE IF Gt(dist_10_50, R(1)) /\ Gt(ma50_slope, Zero) THEN "WEAK"
                         ELSE IF Lt(dist_10_50, R(-1)) \/ Lt(ma50_slope, Dec(0, -5))
                         THEN "CONTRACTING"
                         ELSE "NEUTRAL"
                 IN [is_expanding |-> quality \in {"STRONG", "MODERATE"},
                     quality |-> quality,
                     ma50_slope |-> Round2(ma50_slope),
                     ma10_ma50_distance |-> Round2(dist_10_50),
                     ma20_ma50_distance |-> Round2(dist_20_50),
                     message |-> quality]

detect_golden_cross(d) ==
    IF NotEnoughData(d)
    THEN [crosses |-> <<>>, best_cross |-> NoCross, has_cross |-> FALSE,
          message |-> "NO_DATA"]
    ELSE LET crosses == GoldenCrosses(d)
             best_cross == IF crosses # <<>> THEN MaxBy(crosses, "score") ELSE NoCross
         IN [crosses |-> crosses, best_cross |-> best_cross,
             has_cross |-> Len(crosses) > 0,
             message |-> IF crosses = <<>> THEN "NO_GOLDEN_CROSS" ELSE best_cross.type]

\* strongest_cross = None
NoDeathCross == [type |-> "None", severity |-> "None", credibility_score |-> 0]

\* lines 393-412: the death crosses of the latest bar (an if / elif pair)
DeathCrosses(d) ==
    IF DfLen(d) >= 2
    THEN LET latest == Iloc(d, 1)
             prev == Iloc(d, 2)
         IN IF prev.MA20 >= prev.MA50 /\ latest.MA20 < latest.MA50
            THEN <<[type |-> "MA20_MA50", severity |-> "CRITICAL", credibility_score |-> 10]>>
            ELSE IF prev.MA10 >= prev.MA20 /\ latest.MA10 < latest.MA20
            THEN <<[type |-> "MA10_MA20", severity |-> "HIGH", credibility_score |-> 6]>>
            ELSE <<>>
    ELSE <<>>

\* price_below_ma = {} in the sentinel: no flag is set
NoFlags == [below_ma10 |-> FALSE, below_ma20 |-> FALSE, below_ma50 |-> FALSE]

detect_death_cross(d) ==
    IF NotEnoughData(d)
    THEN [has_death_cross |-> FALSE, crosses |-> <<>>, strongest_cross |-> NoDeathCross,
          price_below_ma |-> NoFlags, has_flags |-> FALSE]
    ELSE LET latest == Iloc(d, 1)
             price == latest.close
             was_in_perfect_order == PerfectOrder(latest)
             crosses == DeathCrosses(d)
         IN [has_death_cross |-> Len(crosses) > 0,
             crosses |-> crosses,
             strongest_cross |-> IF crosses # <<>> THEN MaxBy(crosses, "credibility_score")
                                 ELSE NoDeathCross,
             price_below_ma |-> [below_ma10 |-> price < latest.MA10,
                                 below_ma20 |-> price < latest.MA20 /\ was_in_perfect_order,
                                 below_ma50 |-> price < latest.MA50],
             has_flags |-> TRUE]

-----------------------------------------------------------------------------
(* volume_analyzer.py                                                       *)

RECURSIVE SumVolume(_, _)
\* the sum of the volumes of the last k rows
SumVolume(d, k) ==
    IF k = 0 THEN 0 ELSE Iloc(d, k).volume + SumVolume(d, k - 1)

\* `if avg_volume == 0` (line 54): the average volume is the denominator of the ratio
AvgVolumeIsZero(avg_volume) == Eq(avg_volume, Zero)

VolumeSentinel(current_volume, message) ==
    [current_volume |-> current_volume, avg_volume |-> Zero, volume_ratio |-> Zero,
     trend |-> "NA", is_decreasing |-> FALSE, message |-> message]

\* the frames of the model always carry a 'volume' column
analyze_volume_trend(d, lookback_days) ==
    IF d.is_none \/ DfLen(d) < lookback_days THEN VolumeSentinel(Zero, "NO_DATA")
    ELSE LET current_volume == R(Iloc(d, 1).volume)
             avg_volume == Div(R(SumVolume(d, lookback_days)), R(lookback_days))
         IN IF AvgVolumeIsZero(avg_volume) THEN VolumeSentinel(current_volume, "VOLUME_ZERO")
            ELSE LET volume_ratio == Div(current_volume, avg_volume)
                     trend == IF Lt(volume_ratio, Dec(0, 7)) THEN "DECREASING"
                              ELSE IF Gt(volume_ratio, Dec(1, 3)) THEN "INCREASING"
                              ELSE "STABLE"
                 IN [current_volume |-> current_volume,
                     avg_volume |-> avg_volume,
                     volume_ratio |-> Round2(volume_ratio),
                     trend |-> trend,
                     is_decreasing |-> trend = "DECREASING",
                     message |-> trend]

\* a falsy argument: an empty dict or None
EmptyDict == <<>>

IsEmptyDict(x) == DOMAIN x = {}

NoSignal == [has_signal |-> FALSE, quality |-> "NA", message |-> ""]

\* variant: a SUPER_TIGHT convergence is STRONG at any volume ratio
SignalQualityStrongOnSuperTight(convergence_level, volume_ratio) ==
    IF convergence_level = "SUPER_TIGHT" THEN "STRONG"
    ELSE IF convergence_level = "TIGHT" /\ Lt(volume_ratio, Dec(0, 5)) THEN "GOOD"
    ELSE "WEAK"

\* lines 158-167: the quality of the accumulation signal
SignalQuality(convergence_level, volume_ratio) ==
    IF convergence_level = "SUPER_TIGHT" /\ Lt(volume_ratio, Dec(0, 5)) THEN "STRONG"
    ELSE IF convergence_level = "SUPER_TIGHT"
            \/ (convergence_level = "TIGHT" /\ Lt(volume_ratio, Dec(0, 5)))
    THEN "GOOD"
    ELSE "WEAK"

\* check_convergence_volume_signal: both results carry every key the .get calls read
check_convergence_volume_signal(convergence, volume_trend) ==
    IF IsEmptyDict(convergence) \/ IsEmptyDict(volume_trend) THEN NoSignal
    ELSE IF ~convergence.is_converging THEN NoSignal
    ELSE IF ~volume_trend.is_decreasing THEN NoSignal
    ELSE LET quality == SignalQuality(convergence.level, volume_trend.volume_ratio)
         IN [has_signal |-> TRUE, quality |-> quality, message |-> quality]

-----------------------------------------------------------------------------
(* TechnicalAnalyzer.__init__ and _calculate_indicators (technical.py).     *)
(* The indicator columns are exact rationals; NaN is the non-finite value.  *)
(* Only the moving-average columns are modelled (not RSI, OBV, MFI and the  *)
(* volume ratios, which no detector of the MA engine reads).                *)

NaN == <<0, 0>>

RECURSIVE SumClose(_, _, _)
SumClose(rows, from, to) ==
    IF from > to THEN 0 ELSE rows[to].close + SumClose(rows, from, to - 1)

\* self.df['close'].rolling(window).mean() at row i (1-based): NaN until the
\* window is full, then the mean of the last `window` closes
RollingMean(rows, i, window) ==
    IF i < window THEN NaN ELSE <<SumClose(rows, i - window + 1, i), window>>

WithIndicators(d) ==
    DataFrame([i \in 1..DfLen(d) |->
        [close |-> d.rows[i].close,
         volume |-> d.rows[i].volume,
         MA5 |-> RollingMean(d.rows, i, 5),
         MA10 |-> RollingMean(d.rows, i, 10),
         MA20 |-> RollingMean(d.rows, i, 20),
         MA50 |-> RollingMean(d.rows, i, 50)]])

\* df_history.copy(): a new object with the same content; the reference to it
\* variant: self.df = df_history, the caller's object itself
DfAlias(h, ref) == [ref |-> ref, heap |-> h]

DfCopy(h, ref) == [ref |-> "copy", heap |-> [h EXCEPT !["copy"] = h[ref]]]

\* _calculate_indicators: returns at once on None or an empty frame, else
\* assigns the indicator columns into the object self.df refers to
CalculateIndicators(h, ref) ==
    IF ref = "None" THEN h
    ELSE IF DfLen(h[ref]) = 0 THEN h
    ELSE [h EXCEPT ![ref] = WithIndicators(h[ref])]

\* TechnicalAnalyzer(df_history): self.df = df_history.copy() if df_history is not None else None
TechnicalAnalyzerNew(h) ==
    IF h["caller"].is_none
    THEN [ref |-> "None", heap |-> CalculateIndicators(h, "None")]
    ELSE LET c == DfCopy(h, "caller")
         IN [ref |-> c.ref, heap |-> CalculateIndicators(c.heap, c.ref)]

-----------------------------------------------------------------------------
(* The input series.  A series is built back from its latest row: the rows  *)
(* the engine reads (df.iloc[-1], [-2], [-5], [-10], [-20]) are drawn from  *)
(* small sets around a base price of 200, every other row is the filler.    *)

Row(close, volume, ma10, ma20, ma50) ==
    [close |-> close, volume |-> volume, MA10 |-> ma10, MA20 |-> ma20, MA50 |-> ma50]

Filler == Row(200, 10, 200, 200, 200)

\* how many bars beyond MinBars the long series have
MaxExtra == 0

Series(n, latest, prev, r5, r10, r20) ==
    DataFrame([k \in 1..n |->
        LET back == n - k + 1
        IN IF back = 1 THEN latest
           ELSE IF back = 2 THEN prev
           ELSE IF back = 5 THEN r5
           ELSE IF back = 10 THEN r10
           ELSE IF back = 20 THEN r20
           ELSE Filler])

\* <<MA10, MA20, MA50>> of the latest bar: around a slow MA of 200, with one or
\* more of the averages at 0, in the reverse order MA10 < MA20 < MA50, and with
\* MA20 above MA10 above MA50
LatestMAs ==
    {<<a, b, 200>> : a \in {199, 202, 216}, b \in {199, 200, 201, 208}}
    \cup {<<0, 0, 0>>, <<216, 208, 0>>, <<0, 199, 200>>, <<202, 0, 200>>, <<198, 199, 200>>,
          <<208, 216, 200>>}

\* the last row: a close between MA20 and MA10 of MAs in perfect order
LatestRows ==
    {Row(c, 10, m[1], m[2], m[3]) : c \in {198, 203, 220}, m \in LatestMAs}
    \cup {Row(201, 10, 202, 201, 200)}

PrevRows == {Row(200, 10, a, 201, e) : a \in {201, 202}, e \in {200, 201}}

\* the rows further back: <<df.iloc[-5].MA10, df.iloc[-10].MA20, df.iloc[-20].MA50,
\* df.iloc[-10].MA50>>, the first three read by the momentum slopes and the last
\* by the 10-row MA50 slope: zero, flat, rising and falling pasts
Pasts ==
    {<<0, 0, 0, 0>>, <<0, 0, 0, 198>>, <<200, 200, 200, 0>>, <<200, 200, 200, 196>>,
     <<200, 200, 200, 198>>, <<200, 200, 200, 202>>, <<200, 200, 188, 198>>,
     <<220, 212, 212, 202>>}

LongSeries ==
    {Series(n, latest, prev, Row(200, 10, p[1], 200, 200), Row(200, 10, 200, p[2], p[4]),
            Row(200, 10, 200, 200, p[3])) :
        n \in MinBars..(MinBars + MaxExtra), latest \in LatestRows, prev \in PrevRows,
        p \in Pasts}

ShortLatestRows == {Row(203, 10, a, b, 200) : a \in {202, 216}, b \in {199, 208}}

ShortSeries ==
    {NoneDf}
    \cup {Series(n, latest, prev, Filler, Filler, Filler) :
            n \in {0, 1, 2, MinBars - 1}, latest \in ShortLatestRows,
            prev \in {Row(200, 10, 200, 201, 200), Row(200, 10, 202, 201, 202)}}

\* the same bars traded at another volume: `base` on every bar but the latest
WithVolumes(d, base, last) ==
    DataFrame([k \in 1..DfLen(d) |->
        [d.rows[k] EXCEPT !.volume = IF k = DfLen(d) THEN last ELSE base]])

VolumeSeries ==
    {WithVolumes(Series(n, latest, Filler, Filler, Filler, Filler), base, last) :
        n \in {MinBars - 1, MinBars},
        latest \in ShortLatestRows \cup {Row(203, 10, 201, 200, 200)},
        base \in {0, 10}, last \in {0, 4, 6, 10, 20}}

\* flat series: 60 bars at one close, every MA equal to it
FlatSeries == {DataFrame([k \in 1..60 |-> Row(c, 10, c, c, c)]) : c \in {150, 200}}

InputSeries == LongSeries \cup ShortSeries \cup VolumeSeries \cup FlatSeries

-----------------------------------------------------------------------------
(* The state machine: a caller holding one series calls the operations.     *)

\* MAAnalyzer.__init__: self.df = df, the caller's object itself
SelfDf == heap["caller"]

\* variant: a call consumes the latest bar of the series it reads
HeapAfterReadDropsBar(h) ==
    IF h["caller"].is_none \/ DfLen(h["caller"]) = 0 THEN h
    ELSE [h EXCEPT !["caller"] =
            DataFrame(SubSeq(h["caller"].rows, 1, DfLen(h["caller"]) - 1))]

\* analyze and the detectors only read self.df / df: the objects after a call
HeapAfterRead(h) == h

\* DataFetcher.__init__ after `Vnstock().stock(...)` succeeded: an empty cache
NoFetcher == [is_none |-> TRUE, data_cache |-> <<>>]

DataFetcherNew == [is_none |-> FALSE, data_cache |-> <<>>]

\* StockScorer.__init__: lazy, no fetcher yet.  constructions is a ghost: the
\* number of DataFetcher objects this scorer has constructed so far
StockScorerNew(symbol) ==
    [symbol |-> symbol, fetcher |-> NoFetcher, _initialized |-> FALSE, constructions |-> 0]

Symbol == "HDB"

Returned(op, args, val) == [op |-> op, args |-> args, val |-> val]

NoArgs == <<>>

Init ==
    /\ heap \in {[caller |-> d, copy |-> NoneDf] : d \in InputSeries}
    /\ ta_df = "unset"
    /\ ret = Returned("none", NoArgs, <<>>)
    /\ runs = <<>>
    /\ scorer = StockScorerNew(Symbol)

Call(op, args, val) ==
    /\ ret' = Returned(op, args, val)
    /\ heap' = HeapAfterRead(heap)
    /\ UNCHANGED <<ta_df, runs, scorer>>

Analyze == Call("analyze", NoArgs, MAAnalyzer_analyze(SelfDf))

DetectConvergence ==
    \E perfect_order \in BOOLEAN :
        Call("detect_convergence", [perfect_order |-> perfect_order],
             detect_convergence(heap["caller"], perfect_order))

DetectExpansion == Call("detect_expansion", NoArgs, detect_expansion(heap["caller"]))

DetectGoldenCross == Call("detect_golden_cross", NoArgs, detect_golden_cross(heap["caller"]))

DetectDeathCross == Call("detect_death_cross", NoArgs, detect_death_cross(heap["caller"]))

AnalyzeMomentum == Call("analyze_momentum", NoArgs, analyze_momentum(heap["caller"]))

AnalyzeVolumeTrend ==
    \E lookback_days \in {5, 20} :
        Call("analyze_volume_trend", [lookback_days |-> lookback_days],
             analyze_volume_trend(heap["caller"], lookback_days))

MADetectConvergence ==
    Call("_detect_convergence", NoArgs, MAAnalyzer_detect_convergence(SelfDf))

MADetectExpansion == Call("_detect_expansion", NoArgs, MAAnalyzer_detect_expansion(SelfDf))

MADetectGoldenCross ==
    Call("_detect_golden_cross", NoArgs, MAAnalyzer_detect_golden_cross(SelfDf))

MADetectSellWarning ==
    Call("_detect_sell_warning", NoArgs, MAAnalyzer_detect_sell_warning(SelfDf))

\* called as analyze calls it, with the results of the two detectors
MADetectTightConvergence ==
    LET convergence == MAAnalyzer_detect_convergence(SelfDf)
        sell_warning == MAAnalyzer_detect_sell_warning(SelfDf)
    IN Call("_detect_tight_convergence",
            [convergence |-> convergence, sell_warning |-> sell_warning],
            MAAnalyzer_detect_tight_convergence(SelfDf, convergence, sell_warning))

MAAnalyzeMomentum ==
    Call("_analyze_ma_momentum", NoArgs, MAAnalyzer_analyze_ma_momentum(SelfDf))

MAForecastScenarios ==
    LET momentum == MAAnalyzer_analyze_ma_momentum(SelfDf)
    IN Call("_forecast_scenarios", [momentum |-> momentum],
            MAAnalyzer_forecast_scenarios(SelfDf, momentum))

\* format_ma_signals (ma_signal_formatter.py): the factual signal list.  The
\* expansion signal reads the keys 'expansion_quality' and 'distances', which
\* detect_expansion does not return: the defaults 'WEAK' and 0 are shown.
Signal(type, color, data) == [type |-> type, color |-> color, data |-> data]

SignalTypes(signals) == {signals[i].type : i \in 1..Len(signals)}

format_ma_signals(d, golden_cross, death_cross, convergence, expansion, momentum, tight_convergence) ==
    IF d.is_none THEN <<>>
    ELSE IF DfLen(d) < 2 THEN <<>>
    ELSE LET latest == Iloc(d, 1)
             price == latest.close
             s1 == IF golden_cross.best_cross.type # "None"
                   THEN <<Signal("golden_cross", "success",
                                 [cross_type |-> golden_cross.best_cross.type,
                                  credibility_score |-> golden_cross.best_cross.score])>>
                   ELSE <<>>
             s2 == IF death_cross.has_death_cross
                   THEN Append(s1, Signal("death_cross", "error",
                                          [cross_type |-> death_cross.strongest_cross.type,
                                           severity |-> death_cross.strongest_cross.severity]))
                   ELSE s1
             s3 == IF tight_convergence.is_tight
                   THEN Append(s2, Signal("tight_convergence", "deep-orange",
                                          [convergence_strength |-> tight_convergence.strength,
                                           avg_distance |-> tight_convergence.avg_distance]))
                   ELSE IF expansion.is_expanding
                   THEN Append(s2, Signal("expansion", "green",
                                          [expansion_quality |-> "WEAK",
                                           ma50_slope |-> expansion.ma50_slope]))
                   ELSE s2
             alignment == momentum.alignment
             s5 == Append(s3, Signal("momentum",
                                     IF alignment \in {"BULLISH_ALIGNED", "MOSTLY_BULLISH"} THEN "UP"
                                     ELSE IF alignment \in {"BEARISH_ALIGNED", "MOSTLY_BEARISH"}
                                     THEN "DOWN" ELSE "NEUTRAL",
                                     [ma10_slope |-> momentum.ma10.slope,
                                      ma20_slope |-> momentum.ma20.slope,
                                      ma50_slope |-> momentum.ma50.slope,
                                      alignment |-> alignment]))
             Dist(ma) == Mul(Div(R(price - ma), R(ma)), R(100))
         IN IF latest.MA50 > 0
            THEN LET dist_ma50 == Dist(latest.MA50)
                 IN Append(s5, Signal("price_position",
                                      IF Gt(dist_ma50, Zero) THEN "blue" ELSE "orange",
                                      [vs_ma10 |-> IF latest.MA10 > 0 THEN Dist(latest.MA10) ELSE Zero,
                                       vs_ma20 |-> IF latest.MA20 > 0 THEN Dist(latest.MA20) ELSE Zero,
                                       vs_ma50 |-> dist_ma50]))
            ELSE s5

\* format_ma_signals fed the detector results of the series
FormatMaSignals ==
    LET d == heap["caller"]
        golden_cross == detect_golden_cross(d)
        death_cross == detect_death_cross(d)
    IN Call("format_ma_signals",
            [golden_cross |-> golden_cross, death_cross |-> death_cross],
            format_ma_signals(d, golden_cross, death_cross,
                              detect_convergence(d, FALSE), detect_expansion(d),
                              analyze_momentum(d),
                              MAAnalyzer_detect_tight_convergence(d, MAAnalyzer_detect_convergence(d),
                                                                  MAAnalyzer_detect_sell_warning(d))))

\* check_convergence_volume_signal fed the results of detect_convergence and
\* analyze_volume_trend on the series, or an empty dict in place of one
CheckConvergenceVolumeSignal ==
    \E lookback_days \in {5, 20} :
        \E convergence \in {detect_convergence(heap["caller"], FALSE), EmptyDict} :
            \E volume_trend \in {analyze_volume_trend(heap["caller"], lookback_days)}
                                 \cup (IF IsEmptyDict(convergence) THEN {} ELSE {EmptyDict}) :
                Call("check_convergence_volume_signal",
                     [convergence |-> convergence, volume_trend |-> volume_trend,
                      lookback_days |-> lookback_days],
                     check_convergence_volume_signal(convergence, volume_trend))

Detectors ==
    \/ FormatMaSignals
    \/ CheckConvergenceVolumeSignal
    \/ DetectConvergence
    \/ DetectExpansion
    \/ DetectGoldenCross
    \/ DetectDeathCross
    \/ AnalyzeMomentum
    \/ AnalyzeVolumeTrend
    \/ MADetectConvergence
    \/ MADetectExpansion
    \/ MADetectGoldenCross
    \/ MADetectSellWarning
    \/ MADetectTightConvergence
    \/ MAAnalyzeMomentum
    \/ MAForecastScenarios

Next == Analyze \/ Detectors

Spec == Init /\ [][Next]_vars

-----------------------------------------------------------------------------
(* _format_ui_alerts called on its own, with any detector results.          *)

SellWarnings ==
    {[has_warning |-> w, warning_level |-> l, warnings |-> <<>>, suggested_action |-> "HOLD"] :
        w \in BOOLEAN, l \in {"CRITICAL", "HIGH", "MEDIUM", "LOW"}}

Convergences ==
    {[is_converging |-> c, convergence_strength |-> R(80), avg_distance |-> Dec(1, 6),
      message |-> ""] : c \in BOOLEAN}

GoldenCrossResults ==
    {[crosses |-> <<>>, best_cross |-> NoCross, message |-> "NO_GOLDEN_CROSS"],
     [crosses |-> <<[type |-> "MA10_MA20", score |-> 6]>>,
      best_cross |-> [type |-> "MA10_MA20", score |-> 6], message |-> "MA10_MA20"]}

Expansions ==
    {ExpansionSentinel("NOT_EXPANDED")}
    \cup {[is_expanding |-> TRUE, expansion_quality |-> q, ma50_slope |-> R(3),
           distances |-> <<R(8), R(4)>>, message |-> "EXPANDING"] : q \in {"PERFECT", "GOOD"}}

TightConvergences ==
    {NotTight(Zero)}
    \cup {[is_tight |-> TRUE, strength |-> R(st), avg_distance |-> Dec(1, 6),
           message |-> "SUPER_TWISTED", suggested_action |-> "WATCH"] : st \in {80, 95}}

FormatUiAlerts(sell_warnings, convergences, golden_crosses, expansions, tight_convergences) ==
    \E sell_warning \in sell_warnings, convergence \in convergences,
       golden_cross \in golden_crosses, expansion \in expansions,
       tight_convergence \in tight_convergences :
        Call("_format_ui_alerts",
             [sell_warning |-> sell_warning, convergence |-> convergence,
              golden_cross |-> golden_cross, expansion |-> expansion,
              tight_convergence |-> tight_convergence],
             MAAnalyzer_format_ui_alerts(SelfDf, sell_warning, convergence, golden_cross,
                                         expansion, tight_convergence))

\* _detect_tight_convergence called on its own, with any convergence result
\* and any sell warning
ConvergenceStrengths == {70, 75, 80, 95}

DetectAnyTightConvergence ==
    \E sell_warning \in SellWarnings, st \in ConvergenceStrengths :
        LET convergence == [is_converging |-> TRUE, convergence_strength |-> R(st),
                            avg_distance |-> Dec(1, 6), message |-> ""]
        IN Call("_detect_tight_convergence",
                [convergence |-> convergence, sell_warning |-> sell_warning],
                MAAnalyzer_detect_tight_convergence(SelfDf, convergence, sell_warning))

FormatAnyUiAlerts ==
    FormatUiAlerts(SellWarnings, Convergences, GoldenCrossResults, Expansions,
                   TightConvergences)

\* the latest bars the formatter distinguishes: perfect order or not, close above MA50 or not
AlertSeries ==
    {NoneDf, DataFrame(<<>>), DataFrame(<<Row(203, 10, 216, 208, 200)>>)}
    \cup {Series(MinBars, Row(c, 10, m[1], m[2], 200), Filler, Filler, Filler, Filler) :
            c \in {198, 203},
            m \in {<<216, 208>>, <<202, 199>>, <<199, 201>>, <<202, 200>>}}

InitAlerts ==
    /\ heap \in {[caller |-> d, copy |-> NoneDf] : d \in AlertSeries}
    /\ ta_df = "unset"
    /\ ret = Returned("none", NoArgs, <<>>)
    /\ runs = <<>>
    /\ scorer = StockScorerNew(Symbol)

NextAlerts == FormatAnyUiAlerts \/ DetectAnyTightConvergence

SpecAlerts == InitAlerts /\ [][NextAlerts]_vars

-----------------------------------------------------------------------------
(* Properties of analyze.                                                   *)

AnalyzeReturned == ret.op = "analyze"

AnalyzeScored == AnalyzeReturned /\ ret.val.has_details

\* C1: the score analyze returns is never below 0 and never above 10,
\* whatever bonuses and penalties the series collects.
C1_ScoreBounded ==
    AnalyzeReturned => Ge(ret.val.score, Zero) /\ Le(ret.val.score, R(10))

\* C1 witness: a run whose total before the penalty is below the penalty, so
\* that only the floor keeps the score at 0.
C1_Witness ==
    /\ AnalyzeScored
    /\ ret.val.sell_warning.has_warning
    /\ ret.val.sell_warning.warning_level = "CRITICAL"
    /\ Lt(ret.val.pre_penalty, R(5))
    /\ Gt(ret.val.pre_penalty, Zero)
    /\ Eq(ret.val.score, Zero)

\* C1 witness of the other bound: a run whose total exceeds 10 and is capped
C1_CapReached ==
    AnalyzeScored /\ Gt(ret.val.pre_penalty, R(10)) /\ Eq(ret.val.score, R(10))

\* C3: with a CRITICAL death cross on the latest bar the final score is
\* max(0, T - 5) for the total T collected before the penalty, and T - 5 is
\* never above 10, so the cap takes nothing of the penalty away.
C3_DeathCrossDominance ==
    (AnalyzeScored /\ ret.val.detected_warning.warning_level = "CRITICAL")
        => /\ Eq(ret.val.score, PyMax(Zero, Sub(ret.val.pre_penalty, R(5))))
           /\ Le(Sub(ret.val.pre_penalty, R(5)), R(10))
           /\ \/ Le(ret.val.score, Sub(PyMin(ret.val.pre_penalty, R(10)), R(5)))
              \/ Eq(ret.val.score, Zero)

\* C3 witness: a CRITICAL death cross on a run that had collected more than 5
C3_Witness ==
    /\ AnalyzeScored
    /\ ret.val.detected_warning.warning_level = "CRITICAL"
    /\ Iloc(heap["caller"], 2).MA20 >= Iloc(heap["caller"], 2).MA50
    /\ Iloc(heap["caller"], 1).MA20 < Iloc(heap["caller"], 1).MA50
    /\ Gt(ret.val.pre_penalty, R(5))
    /\ Eq(ret.val.score, Sub(ret.val.pre_penalty, R(5)))

\* C7: the status is NA exactly when the series has fewer than 50 bars, and
\* otherwise it is the tier of the final score: EXCELLENT from 9, GOOD from 7,
\* ACCEPTABLE from 4, WARNING from 2, POOR below 2.
C7_StatusFromScore ==
    AnalyzeReturned =>
        LET score == ret.val.score
            status == ret.val.status
        IN /\ (status = "NA") <=> (heap["caller"].is_none \/ DfLen(heap["caller"]) < 50)
           /\ status # "NA" =>
                /\ (status = "EXCELLENT") <=> Ge(score, R(9))
                /\ (status = "GOOD") <=> (Ge(score, R(7)) /\ Lt(score, R(9)))
                /\ (status = "ACCEPTABLE") <=> (Ge(score, R(4)) /\ Lt(score, R(7)))
                /\ (status = "WARNING") <=> (Ge(score, R(2)) /\ Lt(score, R(4)))
                /\ (status = "POOR") <=> Lt(score, R(2))

\* C7 witness: a score exactly on a breakpoint
C7_Witness == AnalyzeScored /\ Eq(ret.val.score, R(7)) /\ ret.val.status = "GOOD"

\* C8: on a series of at least 50 bars whose latest bar has MA10 > MA20 > MA50,
\* step 1 of analyze adds at least 2 to the running score.
C8_PerfectOrderContribution ==
    (AnalyzeScored /\ Iloc(heap["caller"], 1).MA10 > Iloc(heap["caller"], 1).MA20
                   /\ Iloc(heap["caller"], 1).MA20 > Iloc(heap["caller"], 1).MA50)
        => Ge(ret.val.step1_points, R(2))

\* C8 witness: perfect order without expansion, the smallest contribution
C8_Witness ==
    /\ AnalyzeScored
    /\ ret.val.perfect_order
    /\ ret.val.expansion.expansion_quality \notin {"PERFECT", "GOOD"}
    /\ Eq(ret.val.step1_points, R(3))

\* C2: on no series or a series of fewer than 50 bars, analyze returns score
\* 0 with status NA and every detector returns its sentinel: a false verdict,
\* no crosses, zero strength and zero slopes.
InsufficientInput == heap["caller"].is_none \/ DfLen(heap["caller"]) < 50

C2_InsufficientData ==
    InsufficientInput =>
        /\ ret.op = "analyze" => Eq(ret.val.score, Zero) /\ ret.val.status = "NA"
        /\ ret.op = "detect_convergence" =>
             ~ret.val.is_converging /\ Eq(ret.val.convergence_pct, Zero) /\ ret.val.level = "NA"
        /\ ret.op = "_detect_convergence" =>
             ~ret.val.is_converging /\ Eq(ret.val.convergence_strength, Zero)
        /\ ret.op \in {"detect_expansion", "_detect_expansion"} =>
             ~ret.val.is_expanding /\ Eq(ret.val.ma50_slope, Zero)
        /\ ret.op \in {"detect_golden_cross", "_detect_golden_cross"} =>
             ret.val.crosses = <<>> /\ ret.val.best_cross.type = "None"
        /\ ret.op = "detect_death_cross" =>
             /\ ~ret.val.has_death_cross
             /\ ret.val.crosses = <<>>
             /\ ret.val.strongest_cross.type = "None"
             /\ ~ret.val.has_flags
        /\ ret.op = "_detect_tight_convergence" =>
             ~ret.val.is_tight /\ Eq(ret.val.strength, Zero)
        /\ ret.op \in {"analyze_momentum", "_analyze_ma_momentum"} =>
             /\ ret.val.alignment = "NEUTRAL"
             /\ \A m \in {"ma10", "ma20", "ma50"} :
                    Eq(ret.val[m].slope, Zero) /\ ret.val[m].trend = "NEUTRAL"

\* C2 witness: 49 bars whose last two bars have the shape of a golden cross,
\* and the golden-cross detector returned no cross
C2_Witness ==
    /\ ~heap["caller"].is_none
    /\ DfLen(heap["caller"]) = 49
    /\ Iloc(heap["caller"], 2).MA10 <= Iloc(heap["caller"], 2).MA20
    /\ Iloc(heap["caller"], 1).MA10 > Iloc(heap["caller"], 1).MA20
    /\ ret.op = "detect_golden_cross"
    /\ ret.val.crosses = <<>>

\* C9: no operation divides by zero.  Every number an operation returns is
\* finite, and where a denominator is 0 (the latest MA50, the smallest of the
\* three latest MAs, the past MA value of a slope, the average volume) the
\* operation returns its zero / neutral result.
SufficientInput == ~InsufficientInput

LatestBar == Iloc(heap["caller"], 1)

PastBar(k) == Iloc(heap["caller"], k)

MomentumLookback == [ma10 |-> 5, ma20 |-> 10, ma50 |-> 20]

MomentumColumn(m, row) ==
    IF m = "ma10" THEN row.MA10 ELSE IF m = "ma20" THEN row.MA20 ELSE row.MA50

SlopesGuarded(momentum) ==
    \A m \in {"ma10", "ma20", "ma50"} :
        /\ Finite(momentum[m].slope)
        /\ (SufficientInput /\ MomentumColumn(m, PastBar(MomentumLookback[m])) = 0)
             => Eq(momentum[m].slope, Zero) /\ momentum[m].trend = "NEUTRAL"

C9_NoDivisionByZero ==
    /\ ret.op = "detect_convergence" =>
         /\ Finite(ret.val.convergence_pct)
         /\ (SufficientInput /\ (LatestBar.MA10 = 0 \/ LatestBar.MA20 = 0 \/ LatestBar.MA50 = 0))
              => /\ Eq(ret.val.convergence_pct, Zero)
                 /\ ~ret.val.is_converging
                 /\ ret.val.level = "NA"
    /\ ret.op = "_detect_convergence" =>
         /\ Finite(ret.val.convergence_strength) /\ Finite(ret.val.avg_distance)
         /\ (SufficientInput /\ LatestBar.MA50 = 0)
              => Eq(ret.val.convergence_strength, Zero) /\ ~ret.val.is_converging
    /\ ret.op = "detect_expansion" =>
         /\ Finite(ret.val.ma50_slope)
         /\ Finite(ret.val.ma10_ma50_distance) /\ Finite(ret.val.ma20_ma50_distance)
         /\ (SufficientInput /\ LatestBar.MA50 = 0)
              => /\ ~ret.val.is_expanding /\ ret.val.quality = "NEUTRAL"
                 /\ Eq(ret.val.ma10_ma50_distance, Zero) /\ Eq(ret.val.ma20_ma50_distance, Zero)
         /\ (SufficientInput /\ PastBar(10).MA50 = 0) => Eq(ret.val.ma50_slope, Zero)
    /\ ret.op = "_detect_expansion" =>
         /\ Finite(ret.val.ma50_slope)
         /\ \A i \in 1..Len(ret.val.distances) : Finite(ret.val.distances[i])
         /\ (SufficientInput /\ LatestBar.MA50 = 0)
              => ~ret.val.is_expanding /\ ret.val.distances = <<>>
         /\ (SufficientInput /\ PastBar(10).MA50 = 0) => Eq(ret.val.ma50_slope, Zero)
    /\ ret.op \in {"analyze_momentum", "_analyze_ma_momentum"} => SlopesGuarded(ret.val)
    /\ ret.op = "_detect_tight_convergence" => Finite(ret.val.strength)
    /\ ret.op = "analyze_volume_trend" =>
         /\ Finite(ret.val.volume_ratio) /\ Finite(ret.val.avg_volume)
         /\ Eq(ret.val.avg_volume, Zero)
              => Eq(ret.val.volume_ratio, Zero) /\ ret.val.trend = "NA"
    /\ AnalyzeScored =>
         /\ Finite(ret.val.score)
         /\ \A k \in {"vs_ma10", "vs_ma20", "vs_ma50"} : Finite(ret.val.price_position[k])
         /\ LatestBar.MA50 = 0 =>
              \A k \in {"vs_ma10", "vs_ma20", "vs_ma50"} : Eq(ret.val.price_position[k], Zero)
         /\ LatestBar.MA20 = 0 => Eq(ret.val.price_position.vs_ma20, Zero)
         /\ LatestBar.MA10 = 0 => Eq(ret.val.price_position.vs_ma10, Zero)
         /\ Finite(ret.val.convergence.convergence_strength)
         /\ Finite(ret.val.expansion.ma50_slope)
         /\ SlopesGuarded(ret.val.momentum)

\* C9 witness: the fast MA was 0 five rows back and is not 0 now, and the
\* momentum analysis returned a zero slope for it
C9_Witness ==
    /\ SufficientInput
    /\ ret.op = "analyze_momentum"
    /\ PastBar(5).MA10 = 0
    /\ LatestBar.MA10 > 0
    /\ Eq(ret.val.ma10.slope, Zero)

\* C9 witness for the volume average: 20 bars without volume
C9_ZeroVolume ==
    /\ SufficientInput
    /\ ret.op = "analyze_volume_trend"
    /\ ret.val.message = "VOLUME_ZERO"
    /\ Eq(ret.val.volume_ratio, Zero)

-----------------------------------------------------------------------------
(* Sequences of calls on one series: analyze run again and again, the       *)
(* detectors, the formatter, and the construction of a TechnicalAnalyzer.   *)

\* how many runs of analyze are recorded
MaxRuns == 2

AnalyzeRun ==
    /\ Len(runs) < MaxRuns
    /\ LET result == MAAnalyzer_analyze(SelfDf)
       IN /\ ret' = Returned("analyze", NoArgs, result)
          /\ runs' = Append(runs, result)
    /\ heap' = HeapAfterRead(heap)
    /\ UNCHANGED <<ta_df, scorer>>

\* TechnicalAnalyzer(df_history): the constructor, indicators included
NewTechnicalAnalyzer ==
    LET made == TechnicalAnalyzerNew(heap)
    IN /\ heap' = made.heap
       /\ ta_df' = made.ref
       /\ ret' = Returned("TechnicalAnalyzer", NoArgs, <<>>)
       /\ UNCHANGED <<runs, scorer>>

\* the formatter as analyze calls it, on the detector results of the series
FormatOwnUiAlerts ==
    LET convergence == MAAnalyzer_detect_convergence(SelfDf)
        sell_warning == MAAnalyzer_detect_sell_warning(SelfDf)
    IN FormatUiAlerts({sell_warning}, {convergence}, {MAAnalyzer_detect_golden_cross(SelfDf)},
                      {MAAnalyzer_detect_expansion(SelfDf)},
                      {MAAnalyzer_detect_tight_convergence(SelfDf, convergence, sell_warning)})

\* a series of bars with the given closes, the MA columns at the base price
BarsOf(closes) ==
    DataFrame([k \in 1..Len(closes) |-> Row(closes[k], 10, 200, 200, 200)])

CallSeries ==
    {NoneDf, BarsOf(<<>>)}
    \cup {BarsOf(<<a>>) : a \in {200, 203}}
    \cup {BarsOf(<<a, b>>) : a \in {200, 203}, b \in {198, 203}}
    \cup {BarsOf(<<a, b, c>>) : a \in {200, 203}, b \in {198, 203}, c \in {200, 220}}
    \cup {Series(n, Row(c, 10, m[1], m[2], 200), prev, Filler, Filler, Filler) :
            n \in {MinBars - 1, MinBars}, c \in {198, 203},
            m \in {<<216, 208>>, <<202, 199>>, <<199, 201>>},
            prev \in {Row(200, 10, 201, 201, 201), Row(200, 10, 202, 201, 200)}}

InitCalls ==
    /\ heap \in {[caller |-> d, copy |-> NoneDf] : d \in CallSeries}
    /\ ta_df = "unset"
    /\ ret = Returned("none", NoArgs, <<>>)
    /\ runs = <<>>
    /\ scorer = StockScorerNew(Symbol)

NextCalls ==
    \/ AnalyzeRun
    \/ NewTechnicalAnalyzer
    \/ FormatOwnUiAlerts
    \/ Detectors

SpecCalls == InitCalls /\ [][NextCalls]_vars

\* C4: whatever the detector results and the latest bar, the alert list of
\* _format_ui_alerts never holds a 'convergence' alert together with a
\* 'perfect_order' alert.
C4_ConvergenceExcludesPerfectOrder ==
    ret.op = "_format_ui_alerts" =>
        ~({"convergence", "perfect_order"} \subseteq AlertTypes(ret.val))

\* C4 witness: perfect order on the latest bar, a converging result passed in,
\* and the list shows perfect order alone
C4_Witness ==
    /\ ret.op = "_format_ui_alerts"
    /\ ret.args.convergence.is_converging
    /\ MarketPerfectOrder(heap["caller"])
    /\ MarketInUptrend(heap["caller"])
    /\ AlertTypes(ret.val) = {"perfect_order"}

\* C4 witness of the other side: a convergence alert is shown
C4_ConvergenceShown ==
    ret.op = "_format_ui_alerts" /\ "convergence" \in AlertTypes(ret.val)

C6_CallerSeriesUnchanged ==
    [][heap'["caller"] = heap["caller"] /\ ta_df' # "caller"]_vars

\* C6 witness: a TechnicalAnalyzer was built on a series, its copy carries the
\* indicator columns, and a detector was then called
C6_Witness ==
    /\ ta_df = "copy"
    /\ DfLen(heap["copy"]) = DfLen(heap["caller"])
    /\ DfLen(heap["caller"]) >= MinBars
    /\ Finite(Iloc(heap["copy"], 1).MA50)
    /\ ret.op = "detect_convergence"

\* C10: the indicator calculator derives MA10, MA20 and MA50 by exponential
\* smoothing: on the first bar the MA is the close, on every later bar it is
\* a * close + (1 - a) * the previous MA with a = 2 / (N + 1), so every bar
\* has a defined value in each MA column and the columns are as long as the
\* price series.
Smoothing(N) == <<2, N + 1>>

MAColumn(row, N) == IF N = 10 THEN row.MA10 ELSE IF N = 20 THEN row.MA20 ELSE row.MA50

C10_ExponentialSmoothing ==
    ta_df = "copy" =>
        LET rows == heap["copy"].rows
        IN /\ Len(rows) = DfLen(heap["caller"])
           /\ \A N \in {10, 20, 50} : \A i \in 1..Len(rows) :
                /\ Finite(MAColumn(rows[i], N))
                /\ i = 1 => Eq(MAColumn(rows[1], N), R(rows[1].close))
                /\ i > 1 => Eq(MAColumn(rows[i], N),
                               Add(Mul(Smoothing(N), R(rows[i].close)),
                                   Mul(Sub(R(1), Smoothing(N)), MAColumn(rows[i - 1], N))))

\* C11: on a flat series (60 bars at one non-zero close, all three MAs equal
\* to it on every bar) detect_convergence returns a bandwidth of 0 with
\* is_converging true and level SUPER_TIGHT, and analyze_momentum returns
\* alignment MIXED with the three slopes 0.
FlatInput ==
    /\ ~heap["caller"].is_none
    /\ DfLen(heap["caller"]) = 60
    /\ \E c \in 1..1000 : \A k \in 1..60 : heap["caller"].rows[k] = Row(c, 10, c, c, c)

C11_FlatSeries ==
    FlatInput =>
        /\ ret.op = "detect_convergence" =>
             /\ Eq(ret.val.convergence_pct, Zero)
             /\ ret.val.is_converging
             /\ ret.val.level = "SUPER_TIGHT"
        /\ ret.op = "analyze_momentum" =>
             /\ ret.val.alignment = "MIXED"
             /\ \A m \in {"ma10", "ma20", "ma50"} : Eq(ret.val[m].slope, Zero)

\* C11 witness: the momentum analysis has run on a flat series
C11_Witness ==
    FlatInput /\ ret.op = "analyze_momentum" /\ ret.val.ma50.trend = "NEUTRAL"

-----------------------------------------------------------------------------
(* StockScorer and DataFetcher.  What the network does is an input of the   *)
(* call: whether `Vnstock().stock(...)` succeeds, what each call of the     *)
(* wrapped history function does, and whether the analysers raise.          *)

max_retries == 3

\* one call of the wrapped function: it raises (a network error or another
\* one) or returns a value (None, an empty frame or data)
FuncRaises(network) == [raised |-> TRUE, network |-> network, value |-> NoneDf]

FuncReturns(value) == [raised |-> FALSE, network |-> FALSE, value |-> value]

\* variant: only None counts as an empty result
IsEmptyResultNoneOnly(result) == result.is_none

\* `result is None or result.empty`
IsEmptyResult(result) == result.is_none \/ DfLen(result) = 0

\* _retry_with_backoff from attempt on; func[k] is what the k-th call does.
\* calls counts the calls of the wrapped function.
RECURSIVE retry_with_backoff(_, _)
retry_with_backoff(func, attempt) ==
    IF attempt > max_retries THEN [result |-> NoneDf, calls |-> max_retries]
    ELSE LET outcome == func[attempt]
         IN IF outcome.raised
            THEN IF outcome.network /\ attempt < max_retries
                 THEN retry_with_backoff(func, attempt + 1)
                 ELSE IF attempt = max_retries
                      THEN [result |-> NoneDf, calls |-> attempt]
                      ELSE retry_with_backoff(func, attempt + 1)
            ELSE IF IsEmptyResult(outcome.value)
                 THEN IF attempt < max_retries
                      THEN retry_with_backoff(func, attempt + 1)
                      ELSE [result |-> NoneDf, calls |-> attempt]
                 ELSE [result |-> outcome.value, calls |-> attempt]

\* fetch_all_data: the history is cached only when it is neither None nor empty
fetch_all_data(fetcher, func) ==
    LET history == retry_with_backoff(func, 1).result
    IN IF ~IsEmptyResult(history)
       THEN [fetcher |-> [fetcher EXCEPT !.data_cache = ("history" :> history) @@ @], val |-> TRUE]
       ELSE [fetcher |-> fetcher, val |-> FALSE]

\* get_data: self.data_cache.get(data_type)
get_data(fetcher, data_type) ==
    IF data_type \in DOMAIN fetcher.data_cache THEN fetcher.data_cache[data_type] ELSE NoneDf

\* variant: the flag is set before the construction is tried
ensure_initializedFlagFirst(s, construct_ok) ==
    IF ~s._initialized
    THEN IF construct_ok
         THEN [scorer |-> [s EXCEPT !.fetcher = DataFetcherNew, !._initialized = TRUE,
                                    !.constructions = @ + 1],
               val |-> TRUE]
         ELSE [scorer |-> [s EXCEPT !._initialized = TRUE], val |-> FALSE]
    ELSE [scorer |-> s, val |-> TRUE]

\* _ensure_initialized: the fetcher is constructed once; a failed construction
\* leaves the scorer as it was
ensure_initialized(s, construct_ok) ==
    IF ~s._initialized
    THEN IF construct_ok
         THEN [scorer |-> [s EXCEPT !.fetcher = DataFetcherNew, !._initialized = TRUE,
                                    !.constructions = @ + 1],
               val |-> TRUE]
         ELSE [scorer |-> s, val |-> FALSE]
    ELSE [scorer |-> s, val |-> TRUE]

\* the error dicts of StockScorer.analyze
ErrorDict(s, error) == [error |-> error, symbol |-> s.symbol, analyzed_at |-> "now"]

FetchErrorDict(s) ==
    [error |-> "fetch", symbol |-> s.symbol, analyzed_at |-> "now", suggestion |-> "retry"]

\* the result of a call: the dict returned, or the exception that escaped
ScorerReturns(val) == [raised |-> FALSE, val |-> val]

ScorerRaises == [raised |-> TRUE, val |-> <<>>]

\* an exception of the analysers escapes analyze
AnalysisFailedEscapes(s) == ScorerRaises

\* `except Exception as e` around the analysers
AnalysisFailed(s) == ScorerReturns(ErrorDict(s, "analysis"))

\* price_data: filled from the last two bars when there are two
PriceData(df_history) ==
    IF DfLen(df_history) >= 2 THEN [price |-> Round2(R(Iloc(df_history, 1).close))]
    ELSE <<>>

\* the flattened result of a successful analysis
AnalysisResult(s, df_history) ==
    ScorerReturns([symbol |-> s.symbol, analyzed_at |-> "now"] @@ PriceData(df_history))

\* StockScorer.analyze as a whole.  trace records what the call went through:
\* whether the fetcher was there, what fetch_all_data returned ("skipped" when
\* it was not called), the history read from the cache, and whether the
\* analysers were run.
StockScorer_analyze(s, h, ref, construct_ok, func, analysers_raise) ==
    LET init == ensure_initialized(s, construct_ok)
        s1 == init.scorer
        fetched == fetch_all_data(s1.fetcher, func)
        s2 == [s1 EXCEPT !.fetcher = fetched.fetcher]
        df_history == get_data(s2.fetcher, "history")
        made == TechnicalAnalyzerNew([h EXCEPT !["caller"] = df_history])
        Out(sc, hp, rf, result, f, hist, ran) ==
            [scorer |-> sc, heap |-> hp, ref |-> rf, result |-> result,
             trace |-> [initialized |-> init.val, fetched |-> f, history |-> hist, ran |-> ran]]
    IN IF ~init.val
       THEN Out(s1, h, ref, ScorerReturns(ErrorDict(s, "fetcher")), "skipped", NoneDf, FALSE)
       ELSE IF ~fetched.val
       THEN Out(s2, h, ref, ScorerReturns(FetchErrorDict(s)), "False", NoneDf, FALSE)
       ELSE IF IsEmptyResult(df_history)
       THEN Out(s2, h, ref, ScorerReturns(ErrorDict(s, "history")), "True", df_history, FALSE)
       ELSE IF analysers_raise
       THEN Out(s2, made.heap, made.ref, AnalysisFailed(s), "True", df_history, TRUE)
       ELSE Out(s2, made.heap, made.ref, AnalysisResult(s, df_history), "True", df_history, TRUE)

\* what the history function can return
Histories == {NoneDf, BarsOf(<<>>), BarsOf(<<200, 203>>)}

FuncOutcomes == {FuncRaises(TRUE), FuncRaises(FALSE)} \cup {FuncReturns(v) : v \in Histories}

ScorerAnalyze ==
    \E construct_ok \in BOOLEAN, analysers_raise \in BOOLEAN, func \in [1..max_retries -> FuncOutcomes] :
        LET out == StockScorer_analyze(scorer, heap, ta_df, construct_ok, func, analysers_raise)
        IN /\ scorer' = out.scorer
           /\ heap' = out.heap
           /\ ta_df' = out.ref
           /\ ret' = Returned("StockScorer.analyze",
                              [was_initialized |-> scorer._initialized, construct_ok |-> construct_ok,
                               func |-> func, analysers_raise |-> analysers_raise, trace |-> out.trace],
                              out.result)
           /\ UNCHANGED runs

\* _retry_with_backoff called on its own with any behaviour of the wrapped function
RetryWithBackoff ==
    \E func \in [1..max_retries -> FuncOutcomes] :
        /\ ret' = Returned("_retry_with_backoff", [func |-> func], retry_with_backoff(func, 1))
        /\ UNCHANGED <<heap, ta_df, runs, scorer>>

InitScorer ==
    /\ heap = [caller |-> NoneDf, copy |-> NoneDf]
    /\ ta_df = "unset"
    /\ ret = Returned("none", NoArgs, <<>>)
    /\ runs = <<>>
    /\ scorer = StockScorerNew(Symbol)

NextScorer == ScorerAnalyze \/ RetryWithBackoff

SpecScorer == InitScorer /\ [][NextScorer]_vars

\* C12: StockScorer.analyze never raises.  When the fetcher cannot be
\* constructed, fetch_all_data returns False, the cached history is None or
\* empty, or the analysers raise, the call returns a dict with an 'error' key
\* and the symbol; and the analysers run only after a call of the history
\* function returned a non-empty frame, which is the one they are given.
ScorerReturned == ret.op = "StockScorer.analyze"

ScorerFailure ==
    \/ ~ret.args.was_initialized /\ ~ret.args.construct_ok
    \/ ret.args.trace.fetched = "False"
    \/ IsEmptyResult(ret.args.trace.history)
    \/ ret.args.trace.ran /\ ret.args.analysers_raise

C12_AnalyzeNeverRaises ==
    ScorerReturned =>
        /\ ~ret.val.raised
        /\ "symbol" \in DOMAIN ret.val.val /\ ret.val.val.symbol = scorer.symbol
        /\ ScorerFailure => "error" \in DOMAIN ret.val.val
        /\ ret.args.trace.ran =>
             /\ \E k \in 1..max_retries :
                  /\ ~ret.args.func[k].raised
                  /\ ~IsEmptyResult(ret.args.func[k].value)
                  /\ ret.args.func[k].value = ret.args.trace.history
             /\ ta_df = "copy"

\* C12 witness: the analysers ran on a fetched history and raised
C12_Witness ==
    /\ ScorerReturned
    /\ ret.args.trace.ran
    /\ ret.args.analysers_raise
    /\ "error" \in DOMAIN ret.val.val

\* C13: the alert list of _format_ui_alerts is in strictly ascending priority,
\* every alert carrying the priority of its type: sell_warning 1,
\* tight_convergence 1.5, expansion 2, weak_uptrend 3, golden_cross 4,
\* convergence 5, perfect_order 6; so no type appears twice.
AlertRanking ==
    [sell_warning |-> R(1), tight_convergence |-> Dec(1, 5), expansion |-> R(2),
     weak_uptrend |-> R(3), golden_cross |-> R(4), convergence |-> R(5),
     perfect_order |-> R(6)]

C13_AlertsAscending ==
    ret.op = "_format_ui_alerts" =>
        /\ \A i \in 1..Len(ret.val) :
             /\ ret.val[i].type \in DOMAIN AlertRanking
             /\ Eq(ret.val[i].priority, AlertRanking[ret.val[i].type])
        /\ \A i, j \in 1..Len(ret.val) :
             i < j => /\ Lt(ret.val[i].priority, ret.val[j].priority)
                      /\ ret.val[i].type # ret.val[j].type

\* C13 witness: a list of four alerts, the sell warning and the tight
\* convergence first
C13_Witness ==
    /\ ret.op = "_format_ui_alerts"
    /\ Len(ret.val) >= 4
    /\ ret.val[1].type = "sell_warning"
    /\ ret.val[2].type = "tight_convergence"

\* C14: when the sell warning passed to _format_ui_alerts is active at level
\* CRITICAL or HIGH, the alert list holds neither a 'golden_cross' nor a
\* 'convergence' alert, whatever the other detector results.
SevereWarningPassed ==
    /\ ret.args.sell_warning.has_warning
    /\ ret.args.sell_warning.warning_level \in {"CRITICAL", "HIGH"}

C14_SevereWarningSuppresses ==
    (ret.op = "_format_ui_alerts" /\ SevereWarningPassed) =>
        AlertTypes(ret.val) \cap {"golden_cross", "convergence"} = {}

\* C14 witness: a HIGH warning with a golden cross and a converging result on
\* a bar where both alerts would otherwise be shown
C14_Witness ==
    /\ ret.op = "_format_ui_alerts"
    /\ ret.args.sell_warning.has_warning
    /\ ret.args.sell_warning.warning_level = "HIGH"
    /\ ret.args.golden_cross.best_cross.type # "None"
    /\ ret.args.convergence.is_converging
    /\ HasRows(heap["caller"])
    /\ LatestBar.close > LatestBar.MA50
    /\ ~PerfectOrder(LatestBar)
    /\ "sell_warning" \in AlertTypes(ret.val)

\* C16: a 'convergence' alert is in the list only if the series has a latest
\* bar whose close is strictly above MA50 and which is not in perfect order.
C16_ConvergenceOnlyInWeakUptrend ==
    (ret.op = "_format_ui_alerts" /\ "convergence" \in AlertTypes(ret.val)) =>
        /\ HasRows(heap["caller"])
        /\ LatestBar.close > LatestBar.MA50
        /\ ~(LatestBar.MA10 > LatestBar.MA20 /\ LatestBar.MA20 > LatestBar.MA50)

\* C16 witness: the convergence alert is shown after the tight-convergence one
C16_Witness ==
    /\ ret.op = "_format_ui_alerts"
    /\ {"convergence", "tight_convergence"} \subseteq AlertTypes(ret.val)
    /\ LatestBar.close > LatestBar.MA50

\* C15: fed the results of detect_golden_cross and detect_death_cross on one
\* series, the signal list of format_ma_signals never holds a 'golden_cross'
\* entry together with a 'death_cross' entry of severity CRITICAL or HIGH.
SevereDeathCrossSignal ==
    \E i \in 1..Len(ret.val) :
        /\ ret.val[i].type = "death_cross"
        /\ ret.val[i].data.severity \in {"CRITICAL", "HIGH"}

C15_NoGoldenWithSevereDeathCross ==
    ret.op = "format_ma_signals" =>
        ~("golden_cross" \in SignalTypes(ret.val) /\ SevereDeathCrossSignal)

\* C17: on a series of at least 50 bars _detect_tight_convergence returns
\* is_tight = true exactly when the convergence strength is at least 75, the
\* latest close is above MA50, the MAs are in perfect order or MA10 > MA20
\* with MA20 >= 0.998 x MA50 or the strength is at least 95, and the sell
\* warning is not an active CRITICAL one.
TightConditions ==
    LET strength == ret.args.convergence.convergence_strength
        sell_warning == ret.args.sell_warning
    IN /\ Ge(strength, R(75))
       /\ LatestBar.close > LatestBar.MA50
       /\ \/ LatestBar.MA10 > LatestBar.MA20 /\ LatestBar.MA20 > LatestBar.MA50
          \/ LatestBar.MA10 > LatestBar.MA20 /\ 1000 * LatestBar.MA20 >= 998 * LatestBar.MA50
          \/ Ge(strength, R(95))
       /\ ~(sell_warning.has_warning /\ sell_warning.warning_level = "CRITICAL")

C17_HeldBack ==
    /\ ret.op = "_detect_tight_convergence"
    /\ SufficientInput
    /\ ~ret.val.is_tight
    /\ Ge(ret.args.convergence.convergence_strength, R(95))
    /\ LatestBar.close > LatestBar.MA50
    /\ PerfectOrder(LatestBar)

\* C18 as claimed: whenever tight convergence is detected the running score
\* grows by 2, and a MEDIUM or LOW warning is overridden: nothing is
\* subtracted and the reported sell_warning has has_warning = false.
TightDetected == AnalyzeScored /\ ret.val.tight_convergence.is_tight

MildWarningDetected == ret.val.detected_warning.warning_level \in {"MEDIUM", "LOW"}

MildWarningOverridden ==
    /\ Eq(ret.val.pre_penalty, Add(ret.val.pre_tight, R(2)))
    /\ ~ret.val.sell_warning.has_warning
    /\ Eq(ret.val.score, PyMin(ret.val.pre_penalty, R(10)))

C18_TightBonusAlways ==
    TightDetected =>
        /\ Eq(ret.val.pre_penalty, Add(ret.val.pre_tight, R(2)))
        /\ MildWarningDetected => MildWarningOverridden

\* C18 amended: when tight convergence is detected and the detected warning
\* level is MEDIUM or LOW (LOW is also the level of a result without warning),
\* the running score grows by 2 and the warning is overridden; at any other
\* level, which is HIGH, nothing is added, the warning is reported as detected
\* and its penalty of 3 is subtracted.
C18_TightBonusOnMildWarning ==
    TightDetected =>
        /\ MildWarningDetected => MildWarningOverridden
        /\ ~MildWarningDetected =>
             /\ ret.val.detected_warning.warning_level = "HIGH"
             /\ Eq(ret.val.pre_penalty, ret.val.pre_tight)
             /\ ret.val.sell_warning = ret.val.detected_warning
             /\ Eq(ret.val.score, PyMin(PyMax(Zero, Sub(ret.val.pre_penalty, R(3))), R(10)))

\* C18 witness: a MEDIUM warning (close under MA10 in perfect order) overridden
\* by a tight convergence
C18_Witness ==
    /\ TightDetected
    /\ ret.val.detected_warning.has_warning
    /\ ret.val.detected_warning.warning_level = "MEDIUM"
    /\ ~ret.val.sell_warning.has_warning
    /\ Eq(ret.val.pre_penalty, Add(ret.val.pre_tight, R(2)))

\* C18 witness of the other side: tight convergence under a HIGH warning
C18_TightUnderHighWarning ==
    /\ TightDetected
    /\ ret.val.detected_warning.warning_level = "HIGH"
    /\ ret.val.sell_warning.has_warning

\* C19: detect_death_cross lists the (MA20,MA50) cross, CRITICAL with
\* credibility 10, whenever MA20 was >= MA50 on the prior bar and is < MA50 on
\* the latest, and the (MA10,MA20) cross, HIGH with credibility 6, whenever
\* MA10 was >= MA20 on the prior bar and is < MA20 on the latest; when both
\* happen on one bar both are listed and the strongest is the CRITICAL one.
DeathCrossReturned == ret.op = "detect_death_cross" /\ SufficientInput

MediumCrossedBelowSlow == PastBar(2).MA20 >= PastBar(2).MA50 /\ LatestBar.MA20 < LatestBar.MA50

FastCrossedBelowMedium == PastBar(2).MA10 >= PastBar(2).MA20 /\ LatestBar.MA10 < LatestBar.MA20

Listed(crosses, cross) == \E i \in 1..Len(crosses) : crosses[i] = cross

C19_DeathCrossMirrorsGolden ==
    DeathCrossReturned =>
        /\ MediumCrossedBelowSlow =>
             Listed(ret.val.crosses,
                    [type |-> "MA20_MA50", severity |-> "CRITICAL", credibility_score |-> 10])
        /\ FastCrossedBelowMedium =>
             Listed(ret.val.crosses,
                    [type |-> "MA10_MA20", severity |-> "HIGH", credibility_score |-> 6])
        /\ (MediumCrossedBelowSlow /\ FastCrossedBelowMedium) =>
             /\ Len(ret.val.crosses) = 2
             /\ ret.val.strongest_cross.severity = "CRITICAL"

\* C20: in price_below_ma of detect_death_cross, below_ma20 and below_ma50 are
\* true only if the latest close is below that MA and the prior bar was in
\* perfect order, and below_ma10 is true exactly when the latest close is
\* below MA10.
C20_PriceBelowFlags ==
    DeathCrossReturned =>
        LET flags == ret.val.price_below_ma
        IN /\ flags.below_ma20 => LatestBar.close < LatestBar.MA20 /\ PerfectOrder(PastBar(2))
           /\ flags.below_ma50 => LatestBar.close < LatestBar.MA50 /\ PerfectOrder(PastBar(2))
           /\ flags.below_ma10 <=> LatestBar.close < LatestBar.MA10

\* C21: on a series of at least 50 bars detect_golden_cross (and
\* MAAnalyzer._detect_golden_cross) lists the (MA10,MA20) cross, credibility 6,
\* exactly when MA10 <= MA20 on the prior bar and MA10 > MA20 on the latest,
\* and the (MA20,MA50) cross, credibility 10, exactly when MA20 <= MA50 on the
\* prior bar and MA20 > MA50 on the latest; best_cross is a listed cross of
\* highest credibility and is absent exactly when no cross is listed.
GoldenCrossReturned ==
    ret.op \in {"detect_golden_cross", "_detect_golden_cross"} /\ SufficientInput

FastCrossedAboveMedium == PastBar(2).MA10 <= PastBar(2).MA20 /\ LatestBar.MA10 > LatestBar.MA20

MediumCrossedAboveSlow == PastBar(2).MA20 <= PastBar(2).MA50 /\ LatestBar.MA20 > LatestBar.MA50

C21_GoldenCrossExactly ==
    GoldenCrossReturned =>
        LET crosses == ret.val.crosses
            best == ret.val.best_cross
        IN /\ Listed(crosses, [type |-> "MA10_MA20", score |-> 6]) <=> FastCrossedAboveMedium
           /\ Listed(crosses, [type |-> "MA20_MA50", score |-> 10]) <=> MediumCrossedAboveSlow
           /\ \A i \in 1..Len(crosses) : crosses[i].type \in {"MA10_MA20", "MA20_MA50"}
           /\ (best.type = "None") <=> (crosses = <<>>)
           /\ crosses # <<>> =>
                /\ Listed(crosses, best)
                /\ \A i \in 1..Len(crosses) : best.score >= crosses[i].score

\* C21 witness: both crosses on one bar, the prior bar at equality, and the
\* (MA20,MA50) cross is the best
C21_Witness ==
    /\ GoldenCrossReturned
    /\ PastBar(2).MA10 = PastBar(2).MA20
    /\ PastBar(2).MA20 = PastBar(2).MA50
    /\ Len(ret.val.crosses) = 2
    /\ ret.val.best_cross.type = "MA20_MA50"

\* C22: on a series of at least 50 bars the momentum slope of each MA with
\* lookback N (MA10: 5, MA20: 10, MA50: 20) is
\* (MA[latest] - MA[latest - N]) / MA[latest - N] x 100 / N, the past value
\* taken N bars before the latest bar, and 0 when that past value is 0.
\* The bar N bars before the latest is df.iloc[-(N + 1)].
SlopeOverBars(m, N) ==
    LET ma_current == MomentumColumn(m, LatestBar)
        ma_past == MomentumColumn(m, PastBar(N + 1))
    IN IF ma_past = 0 THEN Zero
       ELSE Div(Mul(Div(R(ma_current - ma_past), R(ma_past)), R(100)), R(N))

C22_SlopeOverNBars ==
    (ret.op \in {"analyze_momentum", "_analyze_ma_momentum"} /\ SufficientInput) =>
        \A m \in {"ma10", "ma20", "ma50"} :
            Eq(ret.val[m].slope, SlopeOverBars(m, MomentumLookback[m]))

\* C23 as claimed: detect_expansion reports is_expanding = true (quality
\* STRONG or MODERATE) only when the latest bar is in perfect order,
\* MA10 > MA20 > MA50.
ExpandingReported == ret.op = "detect_expansion" /\ ret.val.is_expanding

C23_ExpandingOnlyInPerfectOrder ==
    ExpandingReported =>
        /\ ret.val.quality \in {"STRONG", "MODERATE"}
        /\ LatestBar.MA10 > LatestBar.MA20 /\ LatestBar.MA20 > LatestBar.MA50

\* C23 amended: detect_expansion reports is_expanding = true (quality STRONG or
\* MODERATE) only when, on the latest bar, MA10 is more than 3% and MA20 more
\* than 1.5% above a positive MA50, and MA50 has risen over the last 10 rows;
\* MA10 need not be above MA20.
C23_ExpandingAboveSlowMA ==
    /\ ExpandingReported =>
         /\ ret.val.quality \in {"STRONG", "MODERATE"}
         /\ LatestBar.MA50 > 0
         /\ 100 * LatestBar.MA10 > 103 * LatestBar.MA50
         /\ 1000 * LatestBar.MA20 > 1015 * LatestBar.MA50
         /\ LatestBar.MA50 > PastBar(10).MA50
    /\ (ret.op = "detect_expansion" /\ ret.val.quality \in {"STRONG", "MODERATE"})
         => ret.val.is_expanding

\* C23 witness: an expanding verdict with MA20 above MA10
C23_Witness ==
    /\ ExpandingReported
    /\ LatestBar.MA10 < LatestBar.MA20

\* C24: on a series of at least 50 bars, whenever the momentum alignment is
\* BEARISH_ALIGNED or MOSTLY_BEARISH and the MA50 slope is below -0.1,
\* _forecast_scenarios returns STRONG_DOWNTREND.
C24_BearishIsStrongDowntrend ==
    (/\ ret.op = "_forecast_scenarios"
     /\ SufficientInput
     /\ ret.args.momentum.alignment \in {"BEARISH_ALIGNED", "MOSTLY_BEARISH"}
     /\ Lt(ret.args.momentum.ma50.slope, Dec(0, -1)))
        => ret.val.scenario = "STRONG_DOWNTREND"

\* C25: check_convergence_volume_signal returns has_signal = true exactly
\* when the convergence result is converging and the volume trend is
\* decreasing, which is when the latest volume is below 0.7 x the average of
\* the lookback; quality is STRONG only when the level is SUPER_TIGHT and the
\* volume ratio is below 0.5; and every no-signal result has quality NA.
VolumeSignalReturned == ret.op = "check_convergence_volume_signal"

\* current volume x 10 < 7 x average, the average being the sum over the lookback
VolumeBelow(tenths) ==
    LET d == heap["caller"]
        n == ret.args.lookback_days
    IN /\ ~d.is_none
       /\ DfLen(d) >= n
       /\ LatestBar.volume * 10 * n < tenths * SumVolume(d, n)

C25_AccumulationSignal ==
    VolumeSignalReturned =>
        LET convergence == ret.args.convergence
            volume_trend == ret.args.volume_trend
            given == ~IsEmptyDict(convergence) /\ ~IsEmptyDict(volume_trend)
        IN /\ ret.val.has_signal <=>
                (given /\ convergence.is_converging /\ volume_trend.is_decreasing)
           /\ ~IsEmptyDict(volume_trend) => (volume_trend.is_decreasing <=> VolumeBelow(7))
           /\ ret.val.quality = "STRONG" =>
                /\ ret.val.has_signal
                /\ convergence.level = "SUPER_TIGHT"
                /\ VolumeBelow(5)
           /\ ~ret.val.has_signal => ret.val.quality = "NA"

\* C25 witness: a strong accumulation signal
C25_Witness ==
    /\ VolumeSignalReturned
    /\ ret.val.has_signal
    /\ ret.val.quality = "STRONG"

\* C25 witness of the other side: a SUPER_TIGHT convergence whose volume ratio
\* is between 0.5 and 0.7 gives a signal that is not STRONG
C25_SuperTightNotStrong ==
    /\ VolumeSignalReturned
    /\ ret.val.has_signal
    /\ ret.args.convergence.level = "SUPER_TIGHT"
    /\ ret.val.quality = "GOOD"

\* C26: _retry_with_backoff ends after at most max_retries (3) calls of the
\* wrapped function: it returns the first result that is neither None nor
\* empty, having made no call after it, and returns None when no call returned
\* such a result, the last of the 3 calls having returned an empty result or
\* raised; the result is always a value, never an exception.
GoodCall(outcome) ==
    ~outcome.raised /\ ~outcome.value.is_none /\ Len(outcome.value.rows) > 0

C26_RetryBounded ==
    ret.op = "_retry_with_backoff" =>
        LET func == ret.args.func
            good == {k \in 1..3 : GoodCall(func[k])}
        IN /\ ret.val.calls \in 1..3
           /\ good # {} =>
                /\ \A k \in good : ret.val.calls <= k
                /\ ret.val.calls \in good
                /\ ret.val.result = func[ret.val.calls].value
           /\ good = {} =>
                /\ ret.val.calls = 3
                /\ ret.val.result.is_none

\* C26 witness: an error that is not a network error, then an empty frame,
\* then data on the third call
C26_Witness ==
    /\ ret.op = "_retry_with_backoff"
    /\ ret.args.func[1].raised /\ ~ret.args.func[1].network
    /\ ~ret.args.func[2].raised /\ ~ret.args.func[2].value.is_none
    /\ ret.val.calls = 3
    /\ ~ret.val.result.is_none

\* C26 witness of the other side: three failed calls, the last one raising
C26_GaveUp ==
    /\ ret.op = "_retry_with_backoff"
    /\ ret.args.func[3].raised
    /\ ret.val.calls = 3
    /\ ret.val.result.is_none

\* C27: when the alert list of _format_ui_alerts holds a 'perfect_order'
\* alert, that alert is the whole list; and the list the perfect-order test
\* reads is never a lone 'convergence' alert with perfect order on the latest
\* bar, so the branch that drops that alert never runs.
ListBeforePerfectOrder ==
    AlertsBeforePerfectOrder(heap["caller"], ret.args.sell_warning, ret.args.convergence,
                             ret.args.golden_cross, ret.args.expansion,
                             ret.args.tight_convergence)

LoneConvergenceDropped ==
    /\ MarketPerfectOrder(heap["caller"])
    /\ Len(ListBeforePerfectOrder) = 1
    /\ ListBeforePerfectOrder[1].type = "convergence"

C27_PerfectOrderAlone ==
    ret.op = "_format_ui_alerts" =>
        /\ "perfect_order" \in AlertTypes(ret.val) =>
             Len(ret.val) = 1 /\ ret.val[1].type = "perfect_order"
        /\ ~LoneConvergenceDropped

\* C27 witness: perfect order on the latest bar, nothing else to show, and the
\* list is the perfect-order alert alone
C27_Witness ==
    /\ ret.op = "_format_ui_alerts"
    /\ MarketPerfectOrder(heap["caller"])
    /\ ListBeforePerfectOrder = <<>>
    /\ Len(ret.val) = 1
    /\ ret.val[1].type = "perfect_order"

\* C27 witness of the other side: perfect order on the latest bar, but another
\* alert keeps the perfect-order alert out
C27_PerfectOrderHidden ==
    /\ ret.op = "_format_ui_alerts"
    /\ MarketPerfectOrder(heap["caller"])
    /\ ret.args.convergence.is_converging
    /\ Len(ret.val) > 0
    /\ "perfect_order" \notin AlertTypes(ret.val)

\* C28: in the ui_alerts of an analyze result, a 'tight_convergence' alert and
\* a 'sell_warning' alert stand together only when the warning level is HIGH:
\* with a CRITICAL warning detected there is no tight-convergence alert, and
\* with a tight convergence under a MEDIUM or LOW warning the warning is
\* cleared and there is no sell-warning alert.
TightAndWarningShown ==
    {"tight_convergence", "sell_warning"} \subseteq AlertTypes(ret.val.ui_alerts)

C28_TightWithWarningOnlyAtHigh ==
    AnalyzeScored =>
        /\ TightAndWarningShown =>
             /\ ret.val.sell_warning.warning_level = "HIGH"
             /\ ret.val.detected_warning.warning_level = "HIGH"
        /\ (ret.val.detected_warning.has_warning
            /\ ret.val.detected_warning.warning_level = "CRITICAL") =>
             "tight_convergence" \notin AlertTypes(ret.val.ui_alerts)
        /\ (ret.val.tight_convergence.is_tight
            /\ ret.val.detected_warning.warning_level \in {"MEDIUM", "LOW"}) =>
             "sell_warning" \notin AlertTypes(ret.val.ui_alerts)

\* C28 witness: both alerts in one result, the warning HIGH
C28_Witness ==
    /\ AnalyzeScored
    /\ TightAndWarningShown
    /\ ret.val.sell_warning.warning_level = "HIGH"

\* C28 witness of the other sides: a CRITICAL warning shown without the
\* tight-convergence alert on a tightly converged series above MA50
C28_CriticalShownAlone ==
    /\ AnalyzeScored
    /\ ret.val.detected_warning.warning_level = "CRITICAL"
    /\ Ge(ret.val.convergence.convergence_strength, R(75))
    /\ LatestBar.close > LatestBar.MA50
    /\ "sell_warning" \in AlertTypes(ret.val.ui_alerts)
    /\ "tight_convergence" \notin AlertTypes(ret.val.ui_alerts)

\* a MEDIUM warning detected and cleared, the tight-convergence alert shown
C28_MediumCleared ==
    /\ AnalyzeScored
    /\ ret.val.detected_warning.has_warning
    /\ ret.val.detected_warning.warning_level = "MEDIUM"
    /\ "tight_convergence" \in AlertTypes(ret.val.ui_alerts)
    /\ "sell_warning" \notin AlertTypes(ret.val.ui_alerts)

\* C29: in the result of _detect_sell_warning on a series of at least 50 bars,
\* level CRITICAL or HIGH implies that the latest bar is not in perfect order
\* and that the warnings list is the one cross message; level MEDIUM implies
\* perfect order on the latest bar; has_warning with level LOW means the list
\* is the slow-MA-slope message alone, and then analyze subtracts no penalty:
\* its score is the running total before the penalty step, capped at 10.
SellWarningReturned == ret.op = "_detect_sell_warning" /\ SufficientInput

SellWarningShape(w) ==
    /\ w.warning_level = "CRITICAL" =>
         ~PerfectOrder(LatestBar) /\ w.warnings = <<"DEATH_CROSS_MA20_MA50">>
    /\ w.warning_level = "HIGH" =>
         ~PerfectOrder(LatestBar) /\ w.warnings = <<"MA10_CROSSED_BELOW_MA20">>
    /\ w.warning_level = "MEDIUM" => PerfectOrder(LatestBar)
    /\ (w.has_warning /\ w.warning_level = "LOW") =>
         PerfectOrder(LatestBar) /\ w.warnings = <<"MA50_FLAT">>

C29_SellWarningLevels ==
    /\ SellWarningReturned => SellWarningShape(ret.val)
    /\ AnalyzeScored =>
         /\ SellWarningShape(ret.val.detected_warning)
         /\ (ret.val.detected_warning.has_warning
             /\ ret.val.detected_warning.warning_level = "LOW") =>
              Eq(ret.val.score, PyMin(ret.val.pre_penalty, R(10)))

\* C29 witness: analyze on a series whose only warning is the flat slow MA,
\* kept (no tight convergence clears it), the running total above 0
C29_Witness ==
    /\ AnalyzeScored
    /\ ret.val.detected_warning.has_warning
    /\ ret.val.detected_warning.warning_level = "LOW"
    /\ ret.val.sell_warning.has_warning
    /\ Gt(ret.val.pre_penalty, Zero)
    /\ Lt(ret.val.pre_penalty, R(10))

\* C29 witnesses of the other levels
C29_Critical ==
    SellWarningReturned /\ ret.val.warning_level = "CRITICAL"

C29_High ==
    SellWarningReturned /\ ret.val.warning_level = "HIGH"

C29_MediumTwoMessages ==
    /\ SellWarningReturned
    /\ ret.val.warning_level = "MEDIUM"
    /\ Len(ret.val.warnings) >= 2

\* C30: over any sequence of StockScorer.analyze calls on one scorer,
\* _initialized is true only if a fetcher exists; a call that finds
\* _initialized false tries the construction, and a failed construction leaves
\* _initialized false and no fetcher; a successful one sets the flag, and from
\* then on every call reuses that fetcher: the scorer never constructs a second
\* one.
C30_FetcherConstructedOnce ==
    /\ scorer._initialized => ~scorer.fetcher.is_none
    /\ scorer._initialized => scorer.constructions = 1
    /\ scorer.constructions <= 1
    /\ ScorerReturned =>
         /\ (~ret.args.was_initialized /\ ~ret.args.construct_ok) =>
              /\ ~scorer._initialized
              /\ scorer.fetcher.is_none
              /\ scorer.constructions = 0
              /\ ~ret.args.trace.initialized
         /\ (~ret.args.was_initialized /\ ret.args.construct_ok) =>
              /\ scorer._initialized
              /\ scorer.constructions = 1
         /\ ret.args.was_initialized =>
              /\ scorer._initialized
              /\ ret.args.trace.initialized

\* C30 witness: a call that found the fetcher of an earlier call and went on
\* to fetch with it, whatever the construction would have done
C30_Witness ==
    /\ ScorerReturned
    /\ ret.args.was_initialized
    /\ ~ret.args.construct_ok
    /\ ret.args.trace.fetched # "skipped"
    /\ scorer.constructions = 1
    /\ ~scorer.fetcher.is_none

\* C30 witness of the other side: a failed construction, the scorer left
\* without fetcher
C30_ConstructionFailed ==
    /\ ScorerReturned
    /\ ~ret.args.was_initialized
    /\ ~ret.args.construct_ok
    /\ ~scorer._initialized

====
